---------------------------- MODULE Spec2Model ----------------------------
(***************************************************************************)
(* A model of pandoky, a flat-file wiki engine: the hook registry and      *)
(* dispatcher of app.py, the page save/delete/edit handlers, the full-text *)
(* indexer (page metadata, vocabulary, inverted index, TF-IDF vectors),    *)
(* the search and similar-pages readers, and slug normalisation.           *)
(*                                                                         *)
(* The specifications of the module share its variables:                   *)
(*   SpecHook    the dispatcher alone, over generic callbacks              *)
(*   Spec        the wiki with the plugins of src/plugins loaded           *)
(*   SpecIndex, SpecCorpus, SpecSimilar, SpecRecalc                        *)
(*               the indexer under saves, deletes and recalculations       *)
(*   SpecRace    the index updates of two saves, interleaved               *)
(*   SpecLock    the edit lock over time                                   *)
(*   SpecVeto    delete_page and the callbacks of before_page_delete       *)
(*   SpecView, SpecRender                                                  *)
(*               the view pipeline, with denying and failing callbacks     *)
(*   SpecSlug    slug normalisation as a function of a bounded string      *)
(***************************************************************************)
EXTENDS Integers, Sequences, FiniteSets, TLC

VARIABLES
    PLUGIN_HOOKS,      \* app.py:24        hook name -> list of callbacks
    disp,              \* SpecHook: what the last trigger_hook call did
    pages,             \* PAGES_DIR/<slug>.md          slug -> NoFile or body
    locks,             \* PAGES_DIR/<slug>.md.lock     slug -> NoFile or holder
    page_meta,         \* indexer_page_meta.json
    vocabulary,        \* indexer_vocabulary.json
    inverted_index,    \* indexer_inverted_index.json
    tfidf_vectors,     \* indexer_tfidf_vectors.json
    req,               \* Spec: the last request handled and its response
    now,               \* the wall clock that datetime.now() reads
    slug_in,           \* SpecSlug: the requested page name
    slug_out,          \* SpecSlug: what the handler normalised it to
    job,               \* SpecRace: slug -> where its index_page_on_save stands
    torn               \* SpecRace: a file was written while another job
                       \*           held a copy of it that it had yet to write

hookVars == <<PLUGIN_HOOKS, disp>>
wikiVars == <<pages, locks, page_meta, vocabulary, inverted_index, tfidf_vectors, req>>
slugVars == <<slug_in, slug_out>>
clockVars == <<now>>
raceVars == <<job, torn>>
vars == <<PLUGIN_HOOKS, disp, pages, locks, page_meta, vocabulary, inverted_index,
          tfidf_vectors, req, now, slug_in, slug_out, job, torn>>

(***************************************************************************)
(* Python values.  None is the empty tuple and any other value v is the    *)
(* one-tuple <<v>>, so that "x is not None" can be asked of every payload. *)
(***************************************************************************)
None == << >>
Some(v) == <<v>>
Unwrap(x) == x[1]

\* A dict is a function; these are d[k] = v and del d[k] / d.pop(k).
Put(d, k, v) == [x \in (DOMAIN d) \cup {k} |-> IF x = k THEN v ELSE d[x]]
Del(d, k) == [x \in (DOMAIN d) \ {k} |-> d[x]]
EmptyDict == [x \in {} |-> 0]


(***************************************************************************)
(* Bounds of the model.                                                    *)
(***************************************************************************)
NumVals == 3          \* generic payloads are 0 .. NumVals-1
MaxCallbacks == 3     \* callbacks registered in all, in SpecHook

Vals == 0 .. (NumVals - 1)

(***************************************************************************)
(* The hook points app.py dispatches, and the callbacks.  The generic      *)
(* callbacks stand for arbitrary plugin functions: two that transform the  *)
(* payload (and do not commute), one that returns nothing, one that raises *)
(* PermissionError and one that raises another Exception.                  *)
(***************************************************************************)
HookNames == {"before_index_load", "before_page_file_access", "after_page_load",
              "process_page_macros", "process_media_links",
              "before_wikilink_conversion", "after_wikilink_conversion",
              "before_pandoc_conversion", "after_pandoc_conversion",
              "before_html_render", "before_edit_page_render",
              "before_page_save", "after_page_save",
              "before_page_delete", "after_page_delete",
              "recalculate_tfidf_hook_completed", "app_initialized"}

GenericFns == {"cb_inc", "cb_dbl", "cb_none", "cb_deny", "cb_fail"}
GenericHooks == {"before_page_file_access", "after_page_load"}

\* Callbacks for before_page_delete, whose payload is the cancel flag: one
\* that asks for the delete to be cancelled and one that answers it need not.
VetoFns == {"cb_true", "cb_false"}

\* What a callback call comes to: it returns val, or raises.
Returned(val, w) == [kind |-> "return", val |-> val, w |-> w]
Raised(kind, w) == [kind |-> kind, val |-> None, w |-> w]

\* A generic callback, def f(*args, **kwargs): it reads its first positional
\* argument when there is one.
GenericCallback(fn, args, w) ==
    LET x == IF args = << >> THEN None ELSE args[1]
    IN  CASE fn = "cb_inc"  -> Returned(IF x = None THEN Some(0)
                                        ELSE Some((Unwrap(x) + 1) % NumVals), w)
          [] fn = "cb_dbl"  -> Returned(IF x = None THEN Some(1)
                                        ELSE Some((2 * Unwrap(x)) % NumVals), w)
          [] fn = "cb_none" -> Returned(None, w)
          [] fn = "cb_deny" -> Raised("PermissionError", w)
          [] fn = "cb_fail" -> Raised("Exception", w)
          [] fn = "cb_true" -> Returned(Some(TRUE), w)
          [] fn = "cb_false" -> Returned(Some(FALSE), w)

(***************************************************************************)
(* The files of the wiki, as one record w that the handlers and the plugin *)
(* callbacks read and write:                                               *)
(*   w.pages[slug]     None, or Some(body): the tokens of the page's body  *)
(*   w.locks[slug]     None, or Some([holder, at]) for <slug>.md.lock:     *)
(*                     who entered the edit view and when                  *)
(*   w.page_meta, w.vocabulary, w.inverted_index, w.tfidf_vectors          *)
(*                     the four JSON files of the indexer                  *)
(*   w.user            g.current_user of the request: None or Some(name)   *)
(*   w.now             the time of the request                             *)
(*   w.trace           what the request has done so far                    *)
(*   w.html            None, or Some(fragment): the HTML the response shows *)
(***************************************************************************)
MaxBodyLen == 2       \* tokens in a page body, in SpecIndex
MaxShortLen == 1      \* tokens in a page body, in Spec and SpecCorpus
MaxQueryLen == 2      \* tokens in a search query
MaxPageIds == 3       \* page ids handed out (next_page_id is capped here)

\* The pages of the wiki: SpecCorpus works on all of them, SpecIndex on two,
\* Spec on one.
Slugs == {"home", "alpha/beta", "gamma"}
PairSlugs == {"home", "alpha/beta"}
OneSlug == {"home"}

\* The tokens a body is made of, the tokens of a query, and str.lower().
RawWords == {"cat", "Dog"}
QueryWords == {"cat", "dog", "Dog", "bird"}
Lower(word) == IF word = "Dog" THEN "dog" ELSE word

RECURSIVE SeqsUpTo(_, _)
SeqsUpTo(S, n) ==
    IF n = 0 THEN {<< >>}
    ELSE LET shorter == SeqsUpTo(S, n - 1)
         IN  shorter \cup {Append(s, x) : s \in shorter, x \in S}

Bodies == SeqsUpTo(RawWords, MaxBodyLen)
ShortBodies == SeqsUpTo(RawWords, MaxShortLen)
Queries == SeqsUpTo(QueryWords, MaxQueryLen)

\* str(n) of a non-negative int, str(None), and int(s).
Digits == <<"0", "1", "2", "3", "4", "5", "6", "7", "8", "9">>
Str(n) == Digits[n + 1]
StrOpt(x) == IF x = None THEN "None" ELSE Str(Unwrap(x))
IntOf(s) == CHOOSE n \in 0 .. 9 : Digits[n + 1] = s

\* fulltext_indexer.py:378-383: the data files as register() creates them.
EmptyPageMeta == [next_page_id |-> 0, slug_to_id |-> EmptyDict, id_to_slug |-> EmptyDict]
EmptyVocabulary == [next_word_id |-> 0, word_to_id |-> EmptyDict, id_to_word |-> EmptyDict]

Log(w, event) == [w EXCEPT !.trace = Append(@, event)]

\* d.get(k): None when the key is absent.
Get(d, k) == IF k \in DOMAIN d THEN Some(d[k]) ELSE None

(***************************************************************************)
(* fulltext_indexer.py: page metadata and vocabulary.                      *)
(***************************************************************************)
\* A variant of get_or_create_page_id that gives every new slug the id 0.
get_or_create_page_id_FirstId(w, page_slug) ==
    LET meta_data == w.page_meta
    IN  IF page_slug \notin DOMAIN meta_data.slug_to_id
        THEN [w |-> [w EXCEPT !.page_meta =
                        [next_page_id |-> meta_data.next_page_id + 1,
                         slug_to_id |-> Put(meta_data.slug_to_id, page_slug, 0),
                         id_to_slug |-> Put(meta_data.id_to_slug, Str(0), page_slug)]],
              page_id |-> 0]
        ELSE [w |-> w, page_id |-> meta_data.slug_to_id[page_slug]]


get_or_create_page_id(w, page_slug) ==
    LET meta_data == w.page_meta
        page_id == meta_data.next_page_id
    IN  IF page_slug \notin DOMAIN meta_data.slug_to_id
        THEN [w |-> [w EXCEPT !.page_meta =
                        [next_page_id |-> page_id + 1,
                         slug_to_id |-> Put(meta_data.slug_to_id, page_slug, page_id),
                         id_to_slug |-> Put(meta_data.id_to_slug, Str(page_id), page_slug)]],
              page_id |-> page_id]
        ELSE [w |-> w, page_id |-> meta_data.slug_to_id[page_slug]]

\* A variant of remove_page_meta that forgets the slug and keeps the entry
\* of its id.
remove_page_meta_KeepsId(w, page_slug) ==
    LET meta_data == w.page_meta
    IN  IF page_slug \in DOMAIN meta_data.slug_to_id
        THEN [w EXCEPT !.page_meta =
                 [next_page_id |-> meta_data.next_page_id,
                  slug_to_id |-> Del(meta_data.slug_to_id, page_slug),
                  id_to_slug |-> meta_data.id_to_slug]]
        ELSE w


remove_page_meta(w, page_slug) ==
    LET meta_data == w.page_meta
    IN  IF page_slug \in DOMAIN meta_data.slug_to_id
        THEN LET page_id == meta_data.slug_to_id[page_slug]
             IN  [w EXCEPT !.page_meta =
                     [next_page_id |-> meta_data.next_page_id,
                      slug_to_id |-> Del(meta_data.slug_to_id, page_slug),
                      id_to_slug |-> Del(meta_data.id_to_slug, Str(page_id))]]
        ELSE w

\* A variant of get_or_create_word_id that does not advance next_word_id.
get_or_create_word_id_SameId(w, word) ==
    LET vocab_data == w.vocabulary
        word_id == vocab_data.next_word_id
    IN  IF word \notin DOMAIN vocab_data.word_to_id
        THEN [w |-> [w EXCEPT !.vocabulary =
                        [next_word_id |-> word_id,
                         word_to_id |-> Put(vocab_data.word_to_id, word, word_id),
                         id_to_word |-> Put(vocab_data.id_to_word, Str(word_id), word)]],
              word_id |-> word_id]
        ELSE [w |-> w, word_id |-> vocab_data.word_to_id[word]]


get_or_create_word_id(w, word) ==
    LET vocab_data == w.vocabulary
        word_id == vocab_data.next_word_id
    IN  IF word \notin DOMAIN vocab_data.word_to_id
        THEN [w |-> [w EXCEPT !.vocabulary =
                        [next_word_id |-> word_id + 1,
                         word_to_id |-> Put(vocab_data.word_to_id, word, word_id),
                         id_to_word |-> Put(vocab_data.id_to_word, Str(word_id), word)]],
              word_id |-> word_id]
        ELSE [w |-> w, word_id |-> vocab_data.word_to_id[word]]

(***************************************************************************)
(* Text processing.  The body of a page is kept as its sequence of tokens; *)
(* tokenize_and_normalize lower-cases them (fulltext_indexer.py:106-111).  *)
(***************************************************************************)
tokenize_and_normalize(text_content) ==
    [i \in 1 .. Len(text_content) |-> Lower(text_content[i])]

\* collections.Counter(tokens).items(): the distinct tokens in the order of
\* their first occurrence, each with its count.
RECURSIVE Dedup(_)
Dedup(s) ==
    IF s = << >> THEN << >>
    ELSE LET r == Dedup(SubSeq(s, 1, Len(s) - 1))
             last == s[Len(s)]
         IN  IF \E i \in 1 .. Len(r) : r[i] = last THEN r ELSE Append(r, last)

CountOf(s, x) == Cardinality({i \in 1 .. Len(s) : s[i] = x})

Counter(tokens) ==
    LET d == Dedup(tokens)
    IN  [i \in 1 .. Len(d) |-> [word |-> d[i], tf |-> CountOf(tokens, d[i])]]

(***************************************************************************)
(* fulltext_indexer.py:115-152: the inverted index, word_id (as str) ->    *)
(* list of postings {page_id, tf}.                                         *)
(***************************************************************************)
\* A variant of WithoutPage that drops nothing.
WithoutPage_KeepsAll(postings, page_id) == postings

\* The postings of a list that are not of page_id.
WithoutPage(postings, page_id) ==
    LET Keep(post) == post.page_id # page_id
    IN  SelectSeq(postings, Keep)

\* A variant of StripPage that leaves a word id whose list became empty in
\* the index.
StripPage_KeepsEmpty(index, page_id) ==
    [k \in DOMAIN index |-> WithoutPage(index[k], page_id)]


\* fulltext_indexer.py:122-126 and 142-148: every list without the page's
\* postings, and no key left with an empty list.
StripPage(index, page_id) ==
    LET kept == {k \in DOMAIN index : WithoutPage(index[k], page_id) # << >>}
    IN  [k \in kept |-> WithoutPage(index[k], page_id)]

\* A variant of AddPostings that adds a posting only under a word id the
\* index does not hold yet.
RECURSIVE AddPostings_NewKeysOnly(_, _, _)
AddPostings_NewKeysOnly(index, page_id, word_id_tf_map) ==
    IF word_id_tf_map = << >> THEN index
    ELSE LET e == Head(word_id_tf_map)
             word_id_str == Str(e.word_id)
         IN  AddPostings_NewKeysOnly(
                 IF word_id_str \in DOMAIN index THEN index
                 ELSE Put(index, word_id_str, <<[page_id |-> page_id, tf |-> e.tf]>>),
                 page_id, Tail(word_id_tf_map))

\* fulltext_indexer.py:128-132
RECURSIVE AddPostings(_, _, _)
AddPostings(index, page_id, word_id_tf_map) ==
    IF word_id_tf_map = << >> THEN index
    ELSE LET e == Head(word_id_tf_map)
             word_id_str == Str(e.word_id)
             base == IF word_id_str \in DOMAIN index THEN index[word_id_str] ELSE << >>
         IN  AddPostings(Put(index, word_id_str,
                             Append(base, [page_id |-> page_id, tf |-> e.tf])),
                         page_id, Tail(word_id_tf_map))

update_inverted_index(w, page_id, word_id_tf_map) ==
    [w EXCEPT !.inverted_index =
        AddPostings(StripPage(w.inverted_index, page_id), page_id, word_id_tf_map)]

remove_from_inverted_index(w, page_id) ==
    LET updated_index == StripPage(w.inverted_index, page_id)
        changed == \E k \in DOMAIN w.inverted_index :
                      Len(WithoutPage(w.inverted_index[k], page_id)) < Len(w.inverted_index[k])
    IN  IF changed THEN [w EXCEPT !.inverted_index = updated_index] ELSE w

(***************************************************************************)
(* fulltext_indexer.py:155-210: TF-IDF vectors.  A weight tf * ln(N/df) is *)
(* kept in tenths, rounded: LnTenths[n] is 10 * ln(n).                     *)
(***************************************************************************)
LnTenths == <<0, 7, 11, 14, 16, 18, 19, 21, 22>>
Idf(N, df) == IF df > 0 /\ N > 0 THEN LnTenths[N] - LnTenths[df] ELSE 0

\* fulltext_indexer.py:178-187
DocumentFrequency(global_inverted_index, word_id) ==
    IF Str(word_id) \in DOMAIN global_inverted_index
    THEN Len(global_inverted_index[Str(word_id)])
    ELSE 1

\* A variant of TfidfVector that keeps only the words of weight other than
\* zero.
TfidfVector_DropsZero(word_id_tf_map, global_inverted_index, N) ==
    LET ids == {Str(word_id_tf_map[i].word_id) : i \in 1 .. Len(word_id_tf_map)}
        TfOf(k) == (CHOOSE i \in 1 .. Len(word_id_tf_map) :
                       Str(word_id_tf_map[i].word_id) = k)
        kept == {k \in ids :
                    Idf(N, DocumentFrequency(global_inverted_index, IntOf(k))) # 0}
    IN  [k \in kept |-> word_id_tf_map[TfOf(k)].tf
                          * Idf(N, DocumentFrequency(global_inverted_index, IntOf(k)))]


\* fulltext_indexer.py:189-197
TfidfVector(word_id_tf_map, global_inverted_index, N) ==
    LET ids == {Str(word_id_tf_map[i].word_id) : i \in 1 .. Len(word_id_tf_map)}
        TfOf(k) == (CHOOSE i \in 1 .. Len(word_id_tf_map) :
                       Str(word_id_tf_map[i].word_id) = k)
    IN  [k \in ids |-> word_id_tf_map[TfOf(k)].tf
                         * Idf(N, DocumentFrequency(global_inverted_index, IntOf(k)))]

\* global_inverted_index and total_documents_in_collection are None or Some.
calculate_and_store_tfidf_vector(w, page_id, word_id_tf_map, global_inverted_index, total_documents_in_collection) ==
    LET index == IF global_inverted_index = None THEN w.inverted_index
                 ELSE Unwrap(global_inverted_index)
        N == IF total_documents_in_collection = None
             THEN Cardinality(DOMAIN w.page_meta.slug_to_id)
             ELSE Unwrap(total_documents_in_collection)
    IN  IF N = 0
        THEN [w |-> [w EXCEPT !.tfidf_vectors = Put(@, Str(page_id), EmptyDict)],
              vector |-> EmptyDict]
        ELSE [w |-> w, vector |-> TfidfVector(word_id_tf_map, index, N)]

\* A variant of remove_tfidf_vector that leaves the vector in place.
remove_tfidf_vector_Keeps(w, page_id) == w

remove_tfidf_vector(w, page_id) ==
    IF Str(page_id) \in DOMAIN w.tfidf_vectors
    THEN [w EXCEPT !.tfidf_vectors = Del(@, Str(page_id))]
    ELSE w

(***************************************************************************)
(* fulltext_indexer.py:294-355: the callbacks of after_page_save and       *)
(* after_page_delete.                                                      *)
(***************************************************************************)
\* fulltext_indexer.py:315-319: a word id for every distinct token.
RECURSIVE WordIds(_, _, _)
WordIds(w, term_frequencies, acc) ==
    IF term_frequencies = << >> THEN [w |-> w, word_id_tf_map |-> acc]
    ELSE LET e == Head(term_frequencies)
             g == get_or_create_word_id(w, e.word)
         IN  WordIds(g.w, Tail(term_frequencies),
                     Append(acc, [word_id |-> g.word_id, tf |-> e.tf]))

\* A variant of StoreVector that writes a vector store holding the vector of
\* this page alone.
StoreVector_Alone(page_id, c) ==
    [c.w EXCEPT !.tfidf_vectors = Put(EmptyDict, Str(page_id), c.vector)]


\* fulltext_indexer.py:326-329: the vector is put into the vector store.
StoreVector(page_id, c) ==
    [c.w EXCEPT !.tfidf_vectors = Put(@, Str(page_id), c.vector)]

\* fulltext_indexer.py:321-325: the postings and the vector of the page,
\* from m, the word ids and term frequencies of its tokens.
IndexTokens(page_id, m) ==
    StoreVector(page_id,
        calculate_and_store_tfidf_vector(
            update_inverted_index(m.w, page_id, m.word_id_tf_map),
            page_id, m.word_id_tf_map, None, None))

\* fulltext_indexer.py:301-319: the file is read and tokenised; p is what
\* get_or_create_page_id came to.
IndexWithId(page_name_slug, p) ==
    IF p.w.pages[page_name_slug] = None THEN p.w
    ELSE IndexTokens(p.page_id,
             WordIds(p.w,
                     Counter(tokenize_and_normalize(Unwrap(p.w.pages[page_name_slug]))),
                     << >>))

\* fulltext_indexer.py:294-335
index_page_on_save(w, page_name_slug) ==
    IndexWithId(page_name_slug, get_or_create_page_id(w, page_name_slug))

\* A variant of deindex_page_on_delete that leaves the index as it is.
deindex_page_on_delete_Nothing(w, page_name_slug) == w

deindex_page_on_delete(w, page_name_slug) ==
    LET page_id == Get(w.page_meta.slug_to_id, page_name_slug)
    IN  IF page_id # None
        THEN remove_page_meta(
                 remove_tfidf_vector(
                     remove_from_inverted_index(w, Unwrap(page_id)), Unwrap(page_id)),
                 page_name_slug)
        ELSE w

(***************************************************************************)
(* acl_plugin.py: permission levels and the permission check.  The ACL     *)
(* configuration is the one register() writes (acl_plugin.py:181-192),     *)
(* with one user put in the "editors" group.                               *)
(***************************************************************************)
PERMISSION_LEVELS ==
    [none |-> 0, read |-> 1, edit |-> 2, create |-> 3, delete |-> 4, admin |-> 5]

ACTIONS_TO_REQUIRED_LEVEL ==
    [view_page |-> PERMISSION_LEVELS.read,
     edit_page |-> PERMISSION_LEVELS.edit,
     create_page |-> PERMISSION_LEVELS.create,
     save_page_new |-> PERMISSION_LEVELS.create,
     save_page_existing |-> PERMISSION_LEVELS.edit,
     delete_page |-> PERMISSION_LEVELS.delete,
     admin_site |-> PERMISSION_LEVELS.admin]

AclAdminUsers == {"admin"}
AclDefaultPermissions == [anonymous |-> "read", authenticated |-> "read"]
AclGroups == [editors |-> {"editor"}, another_group |-> {}]
AclGroupPermissions == [editors |-> "edit", another_group |-> "read"]

\* The requesters: anonymous (None) and three accounts.
Users == {None, Some("reader"), Some("editor"), Some("admin")}

Max(a, b) == IF a >= b THEN a ELSE b

RECURSIVE MaxLevel(_, _)
MaxLevel(groups, level) ==
    IF groups = {} THEN level
    ELSE LET grp == CHOOSE x \in groups : TRUE
         IN  MaxLevel(groups \ {grp},
                      IF grp \in DOMAIN AclGroupPermissions
                      THEN Max(level, PERMISSION_LEVELS[AclGroupPermissions[grp]])
                      ELSE level)

get_user_effective_permission_level(username) ==
    IF username # None /\ Unwrap(username) \in AclAdminUsers
    THEN PERMISSION_LEVELS.admin
    ELSE LET user_groups ==
                 IF username # None
                 THEN {"authenticated"} \cup
                      {grp \in DOMAIN AclGroups : Unwrap(username) \in AclGroups[grp]}
                 ELSE {"anonymous"}
             base == IF "anonymous" \in user_groups
                     THEN PERMISSION_LEVELS[AclDefaultPermissions.anonymous]
                     ELSE PERMISSION_LEVELS[AclDefaultPermissions.authenticated]
         IN  MaxLevel(user_groups, Max(PERMISSION_LEVELS.none, base))

check_permission(username, required_action) ==
    get_user_effective_permission_level(username)
        >= ACTIONS_TO_REQUIRED_LEVEL[required_action]

\* acl_plugin.py:122-128
hook_before_page_access(args, kw, w) ==
    IF ~check_permission(w.user, "view_page")
    THEN Raised("PermissionError", w)
    ELSE Returned(args[1], w)

\* acl_plugin.py:130-140
hook_before_page_save(args, kw, w) ==
    LET action == IF w.pages[kw.page_name] = None
                  THEN "save_page_new" ELSE "save_page_existing"
    IN  IF ~check_permission(w.user, action)
        THEN Raised("PermissionError", w)
        ELSE Returned(args[1], w)

\* acl_plugin.py:142-148
hook_before_page_delete(args, kw, w) ==
    IF ~check_permission(w.user, "delete_page")
    THEN Returned(Some(TRUE), w)
    ELSE Returned(args[1], w)

(***************************************************************************)
(* The callbacks the plugins register, by the name used in the registry.   *)
(* The slideshow callbacks write and remove a file outside the model and   *)
(* return nothing; its macro callback returns the content as it got it,    *)
(* the bodies of the model holding no ~~SLIDESHOW~~ macro.                 *)
(***************************************************************************)
PluginCallback(fn, args, kw, w) ==
    CASE fn = "_hook_before_page_access" -> hook_before_page_access(args, kw, w)
      [] fn = "_hook_before_page_save" -> hook_before_page_save(args, kw, w)
      [] fn = "_hook_before_page_delete" -> hook_before_page_delete(args, kw, w)
      [] fn = "index_page_on_save_with_context" ->
             Returned(None, index_page_on_save(w, Unwrap(args[1])))
      [] fn = "deindex_page_on_delete_with_context" ->
             Returned(None, deindex_page_on_delete(w, Unwrap(args[1])))
      [] fn = "generate_slideshow" -> Returned(None, w)
      [] fn = "delete_slideshow" -> Returned(None, w)
      [] fn = "process_slideshow_macro" -> Returned(args[1], w)

\* function(*args, **kwargs) for a registered callback.
RunCallback(fn, args, kw, w) ==
    IF fn \in GenericFns \cup VetoFns
    THEN GenericCallback(fn, args, w)
    ELSE PluginCallback(fn, args, kw, Log(w, fn))

(***************************************************************************)
(* trigger_hook (app.py:31-54).                                            *)
(***************************************************************************)
\* app.py:36-38: the positional arguments the callback is called with.
CurrentArgs(data_to_modify, args) ==
    IF data_to_modify # None /\ args # << >>
    THEN <<data_to_modify>> \o Tail(args)
    ELSE args

\* Variants of NextData and Propagates, each wrong in one respect; the
\* properties of trigger_hook below tell them from the code's.
\* It drops what the callback returned.
NextData_DropsResult(data_to_modify, args, r) == data_to_modify

\* It takes the payload of a failing callback for lost.
NextData_LosesOnError(data_to_modify, args, r) ==
    IF r.kind = "Exception" THEN None
    ELSE IF data_to_modify # None /\ args # << >>
    THEN (IF r.val # None THEN r.val ELSE data_to_modify)
    ELSE (IF data_to_modify = None /\ args # << >> /\ r.val # None
          THEN r.val ELSE data_to_modify)

\* It takes a result when there is no positional payload.
NextData_NoArgsTakesResult(data_to_modify, args, r) ==
    IF r.kind = "Exception" THEN data_to_modify
    ELSE IF r.val # None THEN r.val ELSE data_to_modify

\* No error is re-raised.
Propagates_Nothing(kind) == FALSE

\* app.py:36-46 and 51-52: data_to_modify after one callback.
NextData(data_to_modify, args, r) ==
    IF r.kind = "Exception" THEN data_to_modify
    ELSE IF data_to_modify # None /\ args # << >>
    THEN (IF r.val # None THEN r.val ELSE data_to_modify)
    ELSE (IF data_to_modify = None /\ args # << >> /\ r.val # None
          THEN r.val ELSE data_to_modify)

\* app.py:49-50: the error that is re-raised.
Propagates(kind) == kind = "PermissionError"

RECURSIVE hook_loop(_, _, _, _, _, _)
RECURSIVE hook_step(_, _, _, _, _, _, _)

\* app.py:40-52: what follows the call of one callback, which came to r.
hook_step(fns, args, kw, data_to_modify, calls, current_args, r) ==
    IF Propagates(r.kind)
    THEN [raised |-> TRUE, ret |-> None, w |-> r.w,
          calls |-> Append(calls, [fn |-> Head(fns), args |-> current_args,
                                   kind |-> r.kind, val |-> r.val])]
    ELSE hook_loop(Tail(fns), args, kw, NextData(data_to_modify, args, r), r.w,
                   Append(calls, [fn |-> Head(fns), args |-> current_args,
                                  kind |-> r.kind, val |-> r.val]))

\* app.py:34-54: the loop over the callbacks still to call.
hook_loop(fns, args, kw, data_to_modify, w, calls) ==
    IF fns = << >>
    THEN [raised |-> FALSE, ret |-> data_to_modify, w |-> w, calls |-> calls]
    ELSE hook_step(fns, args, kw, data_to_modify, calls,
                   CurrentArgs(data_to_modify, args),
                   RunCallback(Head(fns), CurrentArgs(data_to_modify, args), kw, w))

\* trigger_hook(hook_name, *args, **kwargs) with the registry `hooks`.
trigger_hook(hooks, hook_name, args, kw, w) ==
    hook_loop(hooks[hook_name], args, kw,
              IF args # << >> THEN args[1] ELSE None, w, << >>)

\* register_hook (app.py:27-29).
register_hook(hooks, hook_name, function) ==
    [hooks EXCEPT ![hook_name] = Append(@, function)]


\* The registry once load_plugins() has run (app.py:58-93) over acl_plugin,
\* fulltext_indexer and slideshow_plugin.  os.listdir() gives the plugins in
\* no fixed order: indexer_first says which of the two plugins that share
\* after_page_save and after_page_delete was loaded first.
LoadedHooks(indexer_first) ==
    [h \in HookNames |->
        CASE h = "before_page_file_access" -> <<"_hook_before_page_access">>
          [] h = "before_page_save" -> <<"_hook_before_page_save">>
          [] h = "before_page_delete" -> <<"_hook_before_page_delete">>
          [] h = "process_page_macros" -> <<"process_slideshow_macro">>
          [] h = "after_page_save" ->
                 IF indexer_first
                 THEN <<"index_page_on_save_with_context", "generate_slideshow">>
                 ELSE <<"generate_slideshow", "index_page_on_save_with_context">>
          [] h = "after_page_delete" ->
                 IF indexer_first
                 THEN <<"deindex_page_on_delete_with_context", "delete_slideshow">>
                 ELSE <<"delete_slideshow", "deindex_page_on_delete_with_context">>
          [] OTHER -> << >>]

\* A dispatch made by a handler: the hook point is noted in the trace.
Fire(hooks, hook_name, args, kw, w) ==
    trigger_hook(hooks, hook_name, args, kw, Log(w, hook_name))

(***************************************************************************)
(* fulltext_indexer.py:213-289: recalculate_all_tfidf_vectors.             *)
(***************************************************************************)
\* slug_to_id.items() in dict order.  Page ids are handed out in increasing
\* order and a slug is inserted when it gets its id, so the order of the dict
\* is the order of the ids.
RECURSIVE ItemsFrom(_, _, _)
ItemsFrom(slug_to_id, i, top) ==
    IF i > top THEN << >>
    ELSE LET here == {s \in DOMAIN slug_to_id : slug_to_id[s] = i}
         IN  (IF here = {} THEN << >>
              ELSE LET s == CHOOSE x \in here : TRUE
                   IN  <<[slug |-> s, id |-> i]>>)
             \o ItemsFrom(slug_to_id, i + 1, top)

Items(meta) == ItemsFrom(meta.slug_to_id, 0, meta.next_page_id)

\* fulltext_indexer.py:257-266: the words of the page the vocabulary knows.
KnownWordIds(vocab, term_frequencies) ==
    LET Known(e) == e.word \in DOMAIN vocab.word_to_id
        known == SelectSeq(term_frequencies, Known)
    IN  [i \in 1 .. Len(known) |->
            [word_id |-> vocab.word_to_id[known[i].word], tf |-> known[i].tf]]

\* fulltext_indexer.py:235-282: the loop over the pages.
RECURSIVE RecalcLoop(_, _, _, _)
RecalcLoop(w, items, N, acc) ==
    IF items = << >> THEN acc
    ELSE LET it == Head(items)
         IN  IF w.pages[it.slug] = None
             THEN RecalcLoop(w, Tail(items), N, acc)
             ELSE LET tokens == tokenize_and_normalize(Unwrap(w.pages[it.slug]))
                      m == KnownWordIds(w.vocabulary, Counter(tokens))
                      vec == IF m # << >>
                             THEN calculate_and_store_tfidf_vector(
                                      w, it.id, m, Some(w.inverted_index), Some(N)).vector
                             ELSE EmptyDict
                  IN  RecalcLoop(w, Tail(items), N, Put(acc, Str(it.id), vec))

\* A variant of recalculate_all_tfidf_vectors that indexes every page anew,
\* as a save does, before it computes the vectors.
RECURSIVE ReindexAll(_, _)
ReindexAll(w, items) ==
    IF items = << >> THEN w
    ELSE ReindexAll(index_page_on_save(w, Head(items).slug), Tail(items))

recalculate_all_tfidf_vectors_Reindexes(hooks, w) ==
    LET N == Cardinality(DOMAIN w.page_meta.slug_to_id)
        v == ReindexAll(w, Items(w.page_meta))
    IN  IF N = 0
        THEN [w EXCEPT !.tfidf_vectors = EmptyDict]
        ELSE Fire(hooks, "recalculate_tfidf_hook_completed", << >>, << >>,
                  [v EXCEPT !.tfidf_vectors =
                       RecalcLoop(v, Items(v.page_meta), N, EmptyDict)]).w


recalculate_all_tfidf_vectors(hooks, w) ==
    LET N == Cardinality(DOMAIN w.page_meta.slug_to_id)
    IN  IF N = 0
        THEN [w EXCEPT !.tfidf_vectors = EmptyDict]
        ELSE LET w1 == [w EXCEPT !.tfidf_vectors =
                            RecalcLoop(w, Items(w.page_meta), N, EmptyDict)]
             IN  Fire(hooks, "recalculate_tfidf_hook_completed", << >>, << >>, w1).w

(***************************************************************************)
(* search_plugin.py:44-102: perform_search.  The result is the list of     *)
(* {slug, score}; titles and urls are left out.                            *)
(***************************************************************************)
\* list.sort(reverse=True) is stable: an element goes behind the pos
\* elements that are not smaller than it.
InsertBehind(sorted, e, pos) ==
    SubSeq(sorted, 1, pos) \o <<e>> \o SubSeq(sorted, pos + 1, Len(sorted))

\* page_scores[page_id] += tf, on a dict that keeps insertion order.
AddScore(page_scores, page_id, tf) ==
    IF \E i \in 1 .. Len(page_scores) : page_scores[i].page_id = page_id
    THEN [i \in 1 .. Len(page_scores) |->
             IF page_scores[i].page_id = page_id
             THEN [page_scores[i] EXCEPT !.score = @ + tf]
             ELSE page_scores[i]]
    ELSE Append(page_scores, [page_id |-> page_id, score |-> tf])

RECURSIVE ScorePostings(_, _)
ScorePostings(page_scores, postings) ==
    IF postings = << >> THEN page_scores
    ELSE ScorePostings(AddScore(page_scores, Head(postings).page_id, Head(postings).tf),
                       Tail(postings))

\* search_plugin.py:67-74
RECURSIVE ScoreWords(_, _, _)
ScoreWords(page_scores, query_word_ids, index) ==
    IF query_word_ids = << >> THEN page_scores
    ELSE LET word_id_str == Str(Head(query_word_ids))
         IN  ScoreWords(IF word_id_str \in DOMAIN index
                        THEN ScorePostings(page_scores, index[word_id_str])
                        ELSE page_scores,
                        Tail(query_word_ids), index)

\* A variant of SortByScore that is not stable: of two results with the same
\* score the later one comes first.
RECURSIVE SortByScore_TiesReversed(_)
SortByScore_TiesReversed(results) ==
    IF results = << >> THEN << >>
    ELSE LET sorted == SortByScore_TiesReversed(SubSeq(results, 1, Len(results) - 1))
             e == results[Len(results)]
         IN  InsertBehind(sorted, e,
                 Cardinality({i \in 1 .. Len(sorted) : sorted[i].score > e.score}))


ScoreGreater(a, b) == a.score > b.score

RECURSIVE SortByScore(_)
SortByScore(results) ==
    IF results = << >> THEN << >>
    ELSE LET sorted == SortByScore(SubSeq(results, 1, Len(results) - 1))
             e == results[Len(results)]
         IN  InsertBehind(sorted, e,
                 Cardinality({i \in 1 .. Len(sorted) : ~ScoreGreater(e, sorted[i])}))

perform_search(w, query_string) ==
    LET query_terms == tokenize_and_normalize(query_string)
        InVocabulary(term) == term \in DOMAIN w.vocabulary.word_to_id
        known_terms == SelectSeq(query_terms, InVocabulary)
        query_word_ids == [i \in 1 .. Len(known_terms) |->
                              w.vocabulary.word_to_id[known_terms[i]]]
        page_scores == ScoreWords(<< >>, query_word_ids, w.inverted_index)
        HasSlug(e) == Str(e.page_id) \in DOMAIN w.page_meta.id_to_slug
        found == SelectSeq(page_scores, HasSlug)
        results == [i \in 1 .. Len(found) |->
                       [slug |-> w.page_meta.id_to_slug[Str(found[i].page_id)],
                        score |-> found[i].score]]
    IN  SortByScore(results)

(***************************************************************************)
(* similar_pages_plugin.py:34-114.  A cosine similarity is kept as the dot *)
(* product and the two sums of squares it is computed from.                *)
(***************************************************************************)
RECURSIVE SumOver(_, _)
SumOver(f, keys) ==
    IF keys = {} THEN 0
    ELSE LET k == CHOOSE x \in keys : TRUE
         IN  f[k] + SumOver(f, keys \ {k})

cosine_similarity(vec1, vec2) ==
    LET intersection == (DOMAIN vec1) \cap (DOMAIN vec2)
        dot_product == SumOver([k \in intersection |-> vec1[k] * vec2[k]], intersection)
        sum_sq_vec1 == SumOver([k \in DOMAIN vec1 |-> vec1[k] * vec1[k]], DOMAIN vec1)
        sum_sq_vec2 == SumOver([k \in DOMAIN vec2 |-> vec2[k] * vec2[k]], DOMAIN vec2)
    IN  IF intersection = {} \/ sum_sq_vec1 = 0 \/ sum_sq_vec2 = 0
        THEN [dot |-> 0, sq1 |-> 1, sq2 |-> 1]
        ELSE [dot |-> dot_product, sq1 |-> sum_sq_vec1, sq2 |-> sum_sq_vec2]

\* A variant of Positive that also lets a similarity of zero through.
Positive_OrZero(score) == score.dot >= 0


\* similarity_score > 0
Positive(score) == score.dot > 0

\* a.score > b.score for two positive scores against the same current page:
\* dot_a / sqrt(sq2_a) > dot_b / sqrt(sq2_b).
SimilarityGreater(a, b) ==
    a.score.dot * a.score.dot * b.score.sq2 > b.score.dot * b.score.dot * a.score.sq2

RECURSIVE SortBySimilarity(_)
SortBySimilarity(items) ==
    IF items = << >> THEN << >>
    ELSE LET sorted == SortBySimilarity(SubSeq(items, 1, Len(items) - 1))
             e == items[Len(items)]
         IN  InsertBehind(sorted, e,
                 Cardinality({i \in 1 .. Len(sorted) : ~SimilarityGreater(e, sorted[i])}))

\* similar_pages_plugin.py:81-88: all_tfidf_vectors.items() in dict order,
\* which is the order of the page ids (a vector is inserted when its page is
\* first indexed, and a recalculation inserts in the order of slug_to_id).
RECURSIVE Similarities(_, _, _, _)
Similarities(vectors, current_page_id_str, i, top) ==
    IF i > top THEN << >>
    ELSE LET page_id_str == Str(i)
             rest == Similarities(vectors, current_page_id_str, i + 1, top)
         IN  IF page_id_str \notin DOMAIN vectors
                \/ page_id_str = current_page_id_str
                \/ vectors[page_id_str] = EmptyDict
             THEN rest
             ELSE LET score == cosine_similarity(vectors[current_page_id_str],
                                                 vectors[page_id_str])
                  IN  IF Positive(score)
                      THEN <<[page_id_str |-> page_id_str, score |-> score]>> \o rest
                      ELSE rest

\* The answer is a comment (status other than "list") or the list of the
\* slugs linked, in the order of the list.
generate_similar_pages_html(w, current_page_slug, num_similar) ==
    LET current_page_id_str == StrOpt(Get(w.page_meta.slug_to_id, current_page_slug))
        vectors == w.tfidf_vectors
        id_to_slug == w.page_meta.id_to_slug
    IN  IF current_page_id_str \notin DOMAIN vectors
        THEN [status |-> "not_available", slugs |-> << >>]
        ELSE IF vectors[current_page_id_str] = EmptyDict
        THEN [status |-> "no_content", slugs |-> << >>]
        ELSE LET similarities == Similarities(vectors, current_page_id_str, 0,
                                              w.page_meta.next_page_id)
                 sorted == SortBySimilarity(similarities)
                 top_n_similar == SubSeq(sorted, 1,
                                         IF Len(sorted) < num_similar
                                         THEN Len(sorted) ELSE num_similar)
                 HasSlug(e) == e.page_id_str \in DOMAIN id_to_slug
                 linked == SelectSeq(top_n_similar, HasSlug)
             IN  IF similarities = << >>
                 THEN [status |-> "none_found", slugs |-> << >>]
                 ELSE [status |-> "list",
                       slugs |-> [i \in 1 .. Len(linked) |->
                                     id_to_slug[linked[i].page_id_str]]]

(***************************************************************************)
(* app.py:386-525: the edit, save and delete handlers.  A handler takes    *)
(* the files as they are and gives the files as it leaves them and the     *)
(* response.  page_name is a normalised slug.                              *)
(***************************************************************************)
Respond(w, resp) == [w |-> w, resp |-> resp]

\* app.py:444-448 and 485-491: the except PermissionError clauses.
DeniedEdit(w) == IF w.user = None THEN "redirect_login" ELSE "forbidden_403"
DeniedSave(w) == IF w.user = None THEN "redirect_login" ELSE "redirect_edit_denied"

\* app.py:421-448: the editor is rendered, unless a before_edit_page_render
\* callback denied it; r is what the dispatch came to.
RenderEdit(w, r) ==
    IF r.raised THEN Respond(r.w, DeniedEdit(w))
    ELSE Respond(r.w, "render_edit")

\* A variant of edit_page that does not look for a lock file: it writes one
\* whether or not the page is locked.
edit_page_IgnoresLock(hooks, w, page_name) ==
    IF ~check_permission(w.user, IF w.pages[page_name] # None
                                 THEN "edit_page" ELSE "create_page")
    THEN (IF w.user = None THEN Respond(w, "redirect_login")
          ELSE Respond(w, "error_500"))
    ELSE RenderEdit(w,
             Fire(hooks, "before_edit_page_render",
                  <<Some([page_name |-> page_name,
                          page_exists |-> w.pages[page_name] # None])>>,
                  << >>,
                  Log([w EXCEPT !.locks[page_name] =
                                    Some([holder |-> w.user, at |-> w.now])],
                      "create_lock")))


\* app.py:387-451.  abort(403) at line 408 is raised inside the try block and
\* caught by "except Exception", which aborts with 500.
edit_page(hooks, w, page_name) ==
    IF ~check_permission(w.user, IF w.pages[page_name] # None
                                 THEN "edit_page" ELSE "create_page")
    THEN (IF w.user = None THEN Respond(w, "redirect_login")
          ELSE Respond(w, "error_500"))
    ELSE IF w.locks[page_name] # None
    THEN Respond(w, "redirect_view")
    ELSE RenderEdit(w,
             Fire(hooks, "before_edit_page_render",
                  <<Some([page_name |-> page_name,
                          page_exists |-> w.pages[page_name] # None])>>,
                  << >>,
                  Log([w EXCEPT !.locks[page_name] =
                                    Some([holder |-> w.user, at |-> w.now])],
                      "create_lock")))

\* app.py:481-484: the lock file is removed; os.remove raises
\* FileNotFoundError when there is none.  a is what the dispatch of
\* after_page_save came to.
ReleaseLock(w, page_name, a) ==
    IF a.raised THEN Respond(a.w, DeniedSave(w))
    ELSE IF a.w.locks[page_name] = None
    THEN Respond(a.w, "redirect_edit_error")
    ELSE Respond(Log([a.w EXCEPT !.locks[page_name] = None], "remove_lock"),
                 "redirect_view")

\* A variant of WriteAndRelease that dispatches after_page_save before it
\* writes the file.
WriteAndRelease_NotifiesFirst(hooks, w, page_name, raw_content_to_save) ==
    ReleaseLock(w, page_name,
        [Fire(hooks, "after_page_save", <<Some(page_name)>>,
              [page_name |-> page_name], w)
         EXCEPT !.w = Log([@ EXCEPT !.pages[page_name] = raw_content_to_save],
                          "write_page")])


\* app.py:467-484: the file is written, after_page_save dispatched and the
\* lock released.
WriteAndRelease(hooks, w, page_name, raw_content_to_save) ==
    ReleaseLock(w, page_name,
        Fire(hooks, "after_page_save", <<Some(page_name)>>,
             [page_name |-> page_name],
             Log([w EXCEPT !.pages[page_name] = raw_content_to_save], "write_page")))

\* app.py:465-491: b is what the dispatch of before_page_save came to.
WriteUnlessDenied(hooks, w, page_name, b) ==
    IF b.raised THEN Respond(b.w, DeniedSave(w))
    ELSE WriteAndRelease(hooks, b.w, page_name, b.ret)

\* A variant of save_page that writes the file before it asks the
\* before_page_save callbacks.
save_page_WritesFirst(hooks, w, page_name, raw_content_from_form) ==
    WriteUnlessDenied(hooks, w, page_name,
        Fire(hooks, "before_page_save", <<Some(raw_content_from_form)>>,
             [page_name |-> page_name],
             Log([w EXCEPT !.pages[page_name] = Some(raw_content_from_form)],
                 "write_page")))

\* app.py:453-495
save_page(hooks, w, page_name, raw_content_from_form) ==
    WriteUnlessDenied(hooks, w, page_name,
        Fire(hooks, "before_page_save", <<Some(raw_content_from_form)>>,
             [page_name |-> page_name], w))

\* app.py:515-525: a is what the dispatch of after_page_delete came to.
AfterDelete(a) ==
    IF a.raised THEN Respond(a.w, "redirect_index_error")
    ELSE Respond(a.w, "redirect_index")

\* app.py:505-525: c is what the dispatch of before_page_delete came to.
RemoveUnlessCancelled(hooks, page_name, c) ==
    IF c.raised THEN Respond(c.w, "redirect_index_error")
    ELSE IF c.ret = Some(TRUE) THEN Respond(c.w, "redirect_edit")
    ELSE IF c.w.pages[page_name] # None
    THEN AfterDelete(Fire(hooks, "after_page_delete", <<Some(page_name)>>,
                          [page_name |-> page_name],
                          Log([c.w EXCEPT !.pages[page_name] = None], "remove_page")))
    ELSE Respond(c.w, "redirect_index_not_found")

\* app.py:498-525.  Every exception, PermissionError too, ends in the
\* redirect to the index with a flashed error.
delete_page(hooks, w, page_name) ==
    RemoveUnlessCancelled(hooks, page_name,
        Fire(hooks, "before_page_delete", <<Some(FALSE)>>,
             [page_name |-> page_name], w))

\* admin_acl_editor_plugin.py:93-116 and 310-328: the admin tool that runs
\* the recalculation.
trigger_recalculate_tfidf(hooks, w) ==
    IF ~check_permission(w.user, "admin_site")
    THEN (IF w.user = None THEN Respond(w, "redirect_login")
          ELSE Respond(w, "forbidden_403"))
    ELSE Respond(recalculate_all_tfidf_vectors(hooks, Log(w, "recalculate")),
                 "redirect_dashboard")

(***************************************************************************)
(* app.py:230-382: the view pipeline.                                      *)
(***************************************************************************)
\* app.py:272-279: the except PermissionError clause of _get_page_data.
DeniedView(w) == IF w.user = None THEN "redirect_login" ELSE "forbidden_403"

\* The hooks whose payload is the document on its way to HTML; the payload
\* of before_pandoc_conversion is the list of converter arguments and that
\* of before_html_render the render context, which holds the fragment.
DocHooks == {"process_page_macros", "process_media_links",
             "before_wikilink_conversion", "after_wikilink_conversion",
             "after_pandoc_conversion", "before_html_render"}

\* convert_wikilinks (app.py:186-202) leaves the words of a body as they
\* are; pypandoc.convert_text (app.py:341-346) gives the fragment made of
\* the document it is given.
Convert(stage, doc) ==
    IF stage = "convert_text" /\ doc # None
    THEN Some([fragment_of |-> Unwrap(doc)])
    ELSE doc

RECURSIVE RunStages(_, _, _, _, _)

\* r is what the dispatch of the first of the stages came to.  An error that
\* trigger_hook re-raises ends the stages (app.py:319-326 and 360-367).
AfterStage(hooks, stages, kw, doc, r) ==
    IF r.raised THEN [failed |-> TRUE, doc |-> doc, w |-> r.w]
    ELSE RunStages(hooks, Tail(stages), kw,
                   IF Head(stages) \in DocHooks THEN r.ret ELSE doc, r.w)

\* app.py:309-317 and 337-357: the stages of _process_markdown_content and
\* of _render_page_html, each a hook point or a conversion.
RunStages(hooks, stages, kw, doc, w) ==
    IF stages = << >> THEN [failed |-> FALSE, doc |-> doc, w |-> w]
    ELSE IF Head(stages) \in HookNames
    THEN AfterStage(hooks, stages, kw, doc,
             Fire(hooks, Head(stages),
                  <<IF Head(stages) \in DocHooks THEN doc ELSE Some(<< >>)>>,
                  kw, w))
    ELSE RunStages(hooks, Tail(stages), kw, Convert(Head(stages), doc),
                   Log(w, Head(stages)))

\* app.py:359-367: q is what the stages of _render_page_html came to.
Rendered(q) ==
    IF q.failed THEN Respond(q.w, "redirect_edit_error")
    ELSE Respond([q.w EXCEPT !.html = q.doc], "render_page")

\* A variant of _render_page_html that, instead of converting, shows a
\* fragment made when the page was empty, without asking whether the page
\* file is newer.
_render_page_html_ServesCache(hooks, kw, p) ==
    IF p.failed
    THEN Respond(RunStages(hooks, <<"before_pandoc_conversion", "convert_text">>,
                           kw, None, p.w).w, "redirect_edit_error")
    ELSE Respond([p.w EXCEPT !.html = Some([fragment_of |-> << >>])],
                 "render_page")


\* app.py:333-368 as view_page calls it (line 382) with p, what
\* _process_markdown_content came to.  When that failed, p stands for the
\* redirect it returned, which view_page hands on as if it were the
\* document: the converter is called with it and raises.
_render_page_html(hooks, kw, p) ==
    IF p.failed
    THEN Respond(RunStages(hooks, <<"before_pandoc_conversion", "convert_text">>,
                           kw, None, p.w).w, "redirect_edit_error")
    ELSE Rendered(RunStages(hooks, <<"before_pandoc_conversion", "convert_text",
                                     "after_pandoc_conversion",
                                     "before_html_render">>, kw, p.doc, p.w))

\* A variant of _process_markdown_content that resolves the bracket links
\* before the media links are processed.
_process_markdown_content_LinksFirst(hooks, w, kw, body, a) ==
    IF a.raised THEN Respond(a.w, DeniedView(w))
    ELSE _render_page_html(hooks, kw,
             RunStages(hooks, <<"process_page_macros",
                                "before_wikilink_conversion", "convert_wikilinks",
                                "after_wikilink_conversion", "process_media_links">>,
                       kw, body, a.w))


\* app.py:269-279 and 380-382: a is what the dispatch of after_page_load came
\* to, body what was read from the page file.
_process_markdown_content(hooks, w, kw, body, a) ==
    IF a.raised THEN Respond(a.w, DeniedView(w))
    ELSE _render_page_html(hooks, kw,
             RunStages(hooks, <<"process_page_macros", "process_media_links",
                                "before_wikilink_conversion", "convert_wikilinks",
                                "after_wikilink_conversion">>,
                       kw, body, a.w))

\* app.py:249-279: b is what the dispatch of before_page_file_access came to.
_get_page_data(hooks, w, page_name, b) ==
    IF b.raised THEN Respond(b.w, DeniedView(w))
    ELSE IF b.w.pages[page_name] = None THEN Respond(b.w, "redirect_edit")
    ELSE _process_markdown_content(hooks, w, [page_name |-> page_name],
             b.w.pages[page_name],
             Fire(hooks, "after_page_load", <<b.w.pages[page_name]>>, << >>,
                  Log(b.w, "load_page")))

\* app.py:371-382
view_page(hooks, w, page_name) ==
    _get_page_data(hooks, w, page_name,
        Fire(hooks, "before_page_file_access", <<Some(page_name)>>,
             [page_name |-> page_name], w))

\* app.py:230-237: v is what view_page('home') came to.  abort(403) raises,
\* and the except Exception clause answers the welcome text with status 200;
\* a redirect is a return value and is passed on.
Welcome(v) ==
    IF v.resp = "forbidden_403" THEN Respond(v.w, "welcome_200") ELSE v

\* app.py:230-237: h is what the dispatch of before_index_load came to.
ViewHome(hooks, h) ==
    IF h.raised THEN Respond(h.w, "welcome_200")
    ELSE Welcome(view_page(hooks, h.w, "home"))

\* app.py:228-237: index(), the route of "/".
index_route(hooks, w) ==
    ViewHome(hooks, Fire(hooks, "before_index_load", <<Some("home")>>, << >>, w))

(***************************************************************************)
(* Spec: the wiki.  Each action is one request, handled start to finish.   *)
(***************************************************************************)
World(user) ==
    [pages |-> pages, locks |-> locks, page_meta |-> page_meta,
     vocabulary |-> vocabulary, inverted_index |-> inverted_index,
     tfidf_vectors |-> tfidf_vectors, user |-> user, now |-> now,
     trace |-> << >>, html |-> None]

\* SpecHook's record of a dispatch, before any was made.
NoDispatch == [hook |-> "", args |-> << >>, fns |-> << >>, calls |-> << >>,
               raised |-> FALSE, ret |-> None]

NoRequest == [op |-> "", page_name |-> "", user |-> None, resp |-> "",
              trace |-> << >>, html |-> None]

\* The request leaves the files as r.w and the response r.resp.
Handled(op, page_name, user, r) ==
    /\ r.w.page_meta.next_page_id <= MaxPageIds
    /\ pages' = r.w.pages
    /\ locks' = r.w.locks
    /\ page_meta' = r.w.page_meta
    /\ vocabulary' = r.w.vocabulary
    /\ inverted_index' = r.w.inverted_index
    /\ tfidf_vectors' = r.w.tfidf_vectors
    /\ req' = [op |-> op, page_name |-> page_name, user |-> user,
               resp |-> r.resp, trace |-> r.w.trace, html |-> r.w.html]
    /\ UNCHANGED hookVars
    /\ UNCHANGED slugVars
    /\ UNCHANGED clockVars
    /\ UNCHANGED raceVars

EditPage(page_name, user) ==
    \E r \in {edit_page(PLUGIN_HOOKS, World(user), page_name)} :
        Handled("edit_page", page_name, user, r)

SavePage(page_name, raw_content, user) ==
    \E r \in {save_page(PLUGIN_HOOKS, World(user), page_name, raw_content)} :
        Handled("save_page", page_name, user, r)

DeletePage(page_name, user) ==
    \E r \in {delete_page(PLUGIN_HOOKS, World(user), page_name)} :
        Handled("delete_page", page_name, user, r)

Recalculate(user) ==
    \E r \in {trigger_recalculate_tfidf(PLUGIN_HOOKS, World(user))} :
        Handled("recalculate", "", user, r)

\* The index_page_on_save of a page when no save of the page is under way:
\* the copies of the four files it has loaded (snap), the page id and the
\* word ids it got, the words it has yet to look up, and its vector.
NoJob ==
    [pc |-> "idle",
     snap |-> [page_meta |-> EmptyPageMeta, vocabulary |-> EmptyVocabulary,
               inverted_index |-> EmptyDict, tfidf_vectors |-> EmptyDict],
     page_id |-> None, todo |-> << >>, word_id_tf_map |-> << >>,
     vector |-> EmptyDict]

InitWiki ==
    /\ pages = [s \in Slugs |-> None]
    /\ locks = [s \in Slugs |-> None]
    /\ page_meta = EmptyPageMeta
    /\ vocabulary = EmptyVocabulary
    /\ inverted_index = EmptyDict
    /\ tfidf_vectors = EmptyDict
    /\ req = NoRequest
    /\ now = 0
    /\ job = [s \in PairSlugs |-> NoJob]
    /\ torn = FALSE

InitSlug ==
    /\ slug_in = << >>
    /\ slug_out = None

Init ==
    /\ PLUGIN_HOOKS \in {LoadedHooks(TRUE), LoadedHooks(FALSE)}
    /\ disp = NoDispatch
    /\ InitWiki
    /\ InitSlug

Next ==
    \/ \E s \in OneSlug, u \in Users : EditPage(s, u)
    \/ \E s \in OneSlug, b \in ShortBodies, u \in Users : SavePage(s, b, u)
    \/ \E s \in OneSlug, u \in Users : DeletePage(s, u)
    \/ \E u \in Users : Recalculate(u)

Spec == Init /\ [][Next]_vars

(***************************************************************************)
(* SpecIndex: the indexer under the requests of one administrator, who     *)
(* saves and deletes pages and runs the recalculation, one request after   *)
(* another.  No page is locked: nobody enters the edit view.               *)
(***************************************************************************)
Admin == Some("admin")

InitIndex ==
    /\ PLUGIN_HOOKS = LoadedHooks(TRUE)
    /\ disp = NoDispatch
    /\ InitWiki
    /\ InitSlug

NextIndex ==
    \/ \E s \in PairSlugs, b \in Bodies : SavePage(s, b, Admin)
    \/ \E s \in PairSlugs : DeletePage(s, Admin)
    \/ Recalculate(Admin)

SpecIndex == InitIndex /\ [][NextIndex]_vars

(***************************************************************************)
(* SpecCorpus: the same administrator over three pages with short bodies,  *)
(* the least corpus in which two pages come out similar (a word's weight   *)
(* is positive only while fewer pages hold it than there are pages).       *)
(***************************************************************************)
NextCorpus ==
    \/ \E s \in Slugs, b \in ShortBodies : SavePage(s, b, Admin)
    \/ \E s \in Slugs : DeletePage(s, Admin)
    \/ Recalculate(Admin)

SpecCorpus == InitIndex /\ [][NextCorpus]_vars

(***************************************************************************)
(* SpecSimilar: the corpus of three pages in which one page may hold two   *)
(* words, so that it can be more similar to one of the others than to the  *)
(* other.  Pages are saved and the recalculation run; none is deleted.     *)
(***************************************************************************)
NextSimilar ==
    \/ \E b \in Bodies : SavePage("home", b, Admin)
    \/ \E s \in Slugs \ {"home"}, b \in ShortBodies : SavePage(s, b, Admin)
    \/ Recalculate(Admin)

SpecSimilar == InitIndex /\ [][NextSimilar]_vars

(***************************************************************************)
(* SpecRecalc: the indexer when page files also change without a save: the *)
(* wiki keeps its pages as plain files, and the recalculation reads them   *)
(* from the pages directory (fulltext_indexer.py:236-249), whoever wrote   *)
(* them.  A file written that way is not indexed, so its words may be      *)
(* unknown to the vocabulary.  An administrator saves two pages and runs   *)
(* the recalculation; the file of one of the pages is rewritten.           *)
(***************************************************************************)
\* The file of an existing page is rewritten in the pages directory.
WriteFile(page_name, raw_content) ==
    /\ pages[page_name] # None
    /\ \E r \in {Respond(Log([World(None) EXCEPT !.pages[page_name] = Some(raw_content)],
                             "write_page"), "")} :
           Handled("write_file", page_name, None, r)

NextRecalc ==
    \/ \E s \in PairSlugs, b \in ShortBodies : SavePage(s, b, Admin)
    \/ \E s \in OneSlug, b \in Bodies : WriteFile(s, b)
    \/ Recalculate(Admin)

SpecRecalc == InitIndex /\ [][NextRecalc]_vars

(***************************************************************************)
(* SpecRace: the index updates of two saves, of two pages, running at the  *)
(* same time.  Both page files are written; each save runs                 *)
(* index_page_on_save (fulltext_indexer.py:294-335), whose every step      *)
(* loads a JSON file whole, changes the copy and writes it back whole      *)
(* (load_json_data and save_json_data, lines 28-50).  A step of the model  *)
(* is one load or one write, and the steps of the two saves interleave in  *)
(* every way, the run of one save after the other among them.  pc is the   *)
(* step a job takes next:                                                  *)
(*   load_meta, save_meta         get_or_create_page_id                    *)
(*   load_vocab, save_vocab       get_or_create_word_id, once per word     *)
(*   load_index, save_index       update_inverted_index                    *)
(*   compute                      calculate_and_store_tfidf_vector         *)
(*   load_vectors, save_vectors   the vector is put into the vector store  *)
(***************************************************************************)
InitRace ==
    /\ PLUGIN_HOOKS = LoadedHooks(TRUE)
    /\ disp = NoDispatch
    /\ InitSlug
    /\ \E b1, b2 \in ShortBodies :
           pages = [s \in Slugs |-> IF s = "home" THEN Some(b1)
                                    ELSE IF s = "alpha/beta" THEN Some(b2)
                                    ELSE None]
    /\ locks = [s \in Slugs |-> None]
    /\ page_meta = EmptyPageMeta
    /\ vocabulary = EmptyVocabulary
    /\ inverted_index = EmptyDict
    /\ tfidf_vectors = EmptyDict
    /\ req = NoRequest
    /\ now = 0
    /\ job = [s \in PairSlugs |-> [NoJob EXCEPT !.pc = "load_meta"]]
    /\ torn = FALSE

\* The files as the job of page p sees them: the copies it loaded.
Loaded(p) ==
    [World(Admin) EXCEPT !.page_meta = job[p].snap.page_meta,
                         !.vocabulary = job[p].snap.vocabulary,
                         !.inverted_index = job[p].snap.inverted_index,
                         !.tfidf_vectors = job[p].snap.tfidf_vectors]

\* load_json_data (fulltext_indexer.py:28-41): the job reads the file its
\* next step works on.
Load(p) ==
    /\ job[p].pc \in {"load_meta", "load_vocab", "load_index", "load_vectors"}
    /\ job' = [job EXCEPT ![p] =
           CASE job[p].pc = "load_meta" ->
                    [@ EXCEPT !.snap.page_meta = page_meta, !.pc = "save_meta"]
             [] job[p].pc = "load_vocab" ->
                    [@ EXCEPT !.snap.vocabulary = vocabulary, !.pc = "save_vocab"]
             [] job[p].pc = "load_index" ->
                    [@ EXCEPT !.snap.inverted_index = inverted_index, !.pc = "save_index"]
             [] job[p].pc = "load_vectors" ->
                    [@ EXCEPT !.snap.tfidf_vectors = tfidf_vectors, !.pc = "save_vectors"]]
    /\ UNCHANGED <<torn>>
    /\ UNCHANGED hookVars
    /\ UNCHANGED wikiVars
    /\ UNCHANGED slugVars
    /\ UNCHANGED clockVars

\* save_json_data (fulltext_indexer.py:43-50): the job changes its copy and
\* writes it over the file; a page id or word id that the copy already holds
\* is returned without a write (lines 58 and 86).
Write(p) ==
    /\ job[p].pc \in {"save_meta", "save_vocab", "save_index", "save_vectors"}
    /\ torn' = (torn \/ \E q \in PairSlugs \ {p} : job[q].pc = job[p].pc)
    /\ \/ /\ job[p].pc = "save_meta"
          /\ \E r \in {get_or_create_page_id(Loaded(p), p)} :
                /\ r.w.page_meta.next_page_id <= MaxPageIds
                /\ page_meta' = IF r.w.page_meta # job[p].snap.page_meta
                                THEN r.w.page_meta ELSE page_meta
                /\ job' = [job EXCEPT ![p].page_id = Some(r.page_id),
                                      ![p].todo = Counter(tokenize_and_normalize(
                                                      Unwrap(pages[p]))),
                                      ![p].pc = IF Unwrap(pages[p]) = << >>
                                                THEN "load_index" ELSE "load_vocab"]
          /\ UNCHANGED <<vocabulary, inverted_index, tfidf_vectors>>
       \/ /\ job[p].pc = "save_vocab"
          /\ \E g \in {get_or_create_word_id(Loaded(p), Head(job[p].todo).word)} :
                /\ vocabulary' = IF g.w.vocabulary # job[p].snap.vocabulary
                                 THEN g.w.vocabulary ELSE vocabulary
                /\ job' = [job EXCEPT ![p].word_id_tf_map =
                                          Append(@, [word_id |-> g.word_id,
                                                     tf |-> Head(job[p].todo).tf]),
                                      ![p].todo = Tail(@),
                                      ![p].pc = IF Tail(job[p].todo) = << >>
                                                THEN "load_index" ELSE "load_vocab"]
          /\ UNCHANGED <<page_meta, inverted_index, tfidf_vectors>>
       \/ /\ job[p].pc = "save_index"
          /\ inverted_index' = update_inverted_index(Loaded(p), Unwrap(job[p].page_id),
                                                     job[p].word_id_tf_map).inverted_index
          /\ job' = [job EXCEPT ![p].pc = "compute"]
          /\ UNCHANGED <<page_meta, vocabulary, tfidf_vectors>>
       \/ /\ job[p].pc = "save_vectors"
          /\ tfidf_vectors' = StoreVector(Unwrap(job[p].page_id),
                                          [w |-> Loaded(p), vector |-> job[p].vector]).tfidf_vectors
          /\ job' = [job EXCEPT ![p].pc = "done"]
          /\ UNCHANGED <<page_meta, vocabulary, inverted_index>>
    /\ UNCHANGED <<pages, locks, req>>
    /\ UNCHANGED hookVars
    /\ UNCHANGED slugVars
    /\ UNCHANGED clockVars

\* fulltext_indexer.py:323: the vector of the page, from the inverted index
\* and the page metadata as the files are at this moment (lines 163-168).
Compute(p) ==
    /\ job[p].pc = "compute"
    /\ \E c \in {calculate_and_store_tfidf_vector(World(Admin), Unwrap(job[p].page_id),
                                                  job[p].word_id_tf_map, None, None)} :
          /\ tfidf_vectors' = c.w.tfidf_vectors
          /\ job' = [job EXCEPT ![p].vector = c.vector, ![p].pc = "load_vectors"]
    /\ UNCHANGED <<torn>>
    /\ UNCHANGED <<pages, locks, page_meta, vocabulary, inverted_index, req>>
    /\ UNCHANGED hookVars
    /\ UNCHANGED slugVars
    /\ UNCHANGED clockVars

NextRace ==
    \/ \E p \in PairSlugs : Load(p)
    \/ \E p \in PairSlugs : Write(p)
    \/ \E p \in PairSlugs : Compute(p)

SpecRace == InitRace /\ [][NextRace]_vars

(***************************************************************************)
(* SpecLock: the edit lock over time.  The two users who may edit a page   *)
(* that exists enter the edit view, save and delete, and the clock         *)
(* advances between requests.                                              *)
(***************************************************************************)
MaxTime == 3          \* the clock stops here

Editors == {Some("editor"), Some("admin")}

\* Time passes between two requests.
Tick ==
    /\ now < MaxTime
    /\ now' = now + 1
    /\ UNCHANGED hookVars
    /\ UNCHANGED wikiVars
    /\ UNCHANGED slugVars
    /\ UNCHANGED raceVars

NextLock ==
    \/ \E s \in OneSlug, u \in Editors : EditPage(s, u)
    \/ \E s \in OneSlug, b \in ShortBodies, u \in Editors : SavePage(s, b, u)
    \/ \E s \in OneSlug, u \in Editors : DeletePage(s, u)
    \/ Tick

SpecLock == InitIndex /\ [][NextLock]_vars

(***************************************************************************)
(* SpecVeto: delete_page over a registry in which plugins have registered  *)
(* callbacks for before_page_delete, the ACL's among them, in any order    *)
(* (load_plugins takes the plugins in the order os.listdir gives them).    *)
(* An administrator saves; a reader and the administrator delete.          *)
(***************************************************************************)
RegisterVeto(f) ==
    /\ Len(PLUGIN_HOOKS["before_page_delete"]) < MaxCallbacks
    /\ PLUGIN_HOOKS' = register_hook(PLUGIN_HOOKS, "before_page_delete", f)
    /\ UNCHANGED <<disp>>
    /\ UNCHANGED wikiVars
    /\ UNCHANGED slugVars
    /\ UNCHANGED clockVars
    /\ UNCHANGED raceVars

InitVeto ==
    /\ PLUGIN_HOOKS = [LoadedHooks(TRUE) EXCEPT !["before_page_delete"] = << >>]
    /\ disp = NoDispatch
    /\ InitWiki
    /\ InitSlug

NextVeto ==
    \/ \E f \in VetoFns \cup {"cb_none", "_hook_before_page_delete"} :
           RegisterVeto(f)
    \/ \E s \in OneSlug, b \in ShortBodies : SavePage(s, b, Admin)
    \/ \E s \in OneSlug, u \in {Some("reader"), Admin} : DeletePage(s, u)

SpecVeto == InitVeto /\ [][NextVeto]_vars

(***************************************************************************)
(* SpecHook: the dispatcher over a registry of generic callbacks.          *)
(***************************************************************************)
RECURSIVE SumLen(_, _)
SumLen(hooks, names) ==
    IF names = {} THEN 0
    ELSE LET n == CHOOSE x \in names : TRUE
         IN  Len(hooks[n]) + SumLen(hooks, names \ {n})

\* A plugin registers a callback.
RegisterHook(h, f) ==
    /\ SumLen(PLUGIN_HOOKS, GenericHooks) < MaxCallbacks
    /\ PLUGIN_HOOKS' = register_hook(PLUGIN_HOOKS, h, f)
    /\ UNCHANGED <<disp>>
    /\ UNCHANGED wikiVars
    /\ UNCHANGED slugVars
    /\ UNCHANGED clockVars
    /\ UNCHANGED raceVars

\* The application dispatches a hook point; args is () or (payload,).
Dispatch(h, args) ==
    \E r \in {trigger_hook(PLUGIN_HOOKS, h, args, << >>, << >>)} :
        /\ disp' = [hook |-> h, args |-> args, fns |-> PLUGIN_HOOKS[h],
                    calls |-> r.calls, raised |-> r.raised, ret |-> r.ret]
        /\ UNCHANGED <<PLUGIN_HOOKS>>
        /\ UNCHANGED wikiVars
        /\ UNCHANGED slugVars
        /\ UNCHANGED clockVars
        /\ UNCHANGED raceVars

DispatchArgs == {<< >>, <<None>>} \cup {<<Some(v)>> : v \in Vals}

NextHook ==
    \/ \E h \in GenericHooks, f \in GenericFns : RegisterHook(h, f)
    \/ \E h \in GenericHooks, args \in DispatchArgs : Dispatch(h, args)

InitHook ==
    /\ PLUGIN_HOOKS = [h \in HookNames |-> << >>]
    /\ disp = NoDispatch
    /\ InitWiki
    /\ InitSlug

SpecHook == InitHook /\ [][NextHook]_vars

(***************************************************************************)
(* SpecView: the view pipeline and the other entry points over a registry  *)
(* in which a further plugin may have registered, for the hook points that *)
(* authorize a request, a callback that denies it or one that takes no     *)
(* part.  An administrator saves; everyone views, saves and deletes.       *)
(***************************************************************************)
AuthorizingHooks == {"before_index_load", "before_page_file_access",
                     "before_page_save", "before_page_delete"}

RegisterDeny(h, f) ==
    /\ SumLen(PLUGIN_HOOKS, AuthorizingHooks) < MaxCallbacks + 1
    /\ PLUGIN_HOOKS' = register_hook(PLUGIN_HOOKS, h, f)
    /\ UNCHANGED <<disp>>
    /\ UNCHANGED wikiVars
    /\ UNCHANGED slugVars
    /\ UNCHANGED clockVars
    /\ UNCHANGED raceVars

ViewPage(page_name, user) ==
    \E r \in {view_page(PLUGIN_HOOKS, World(user), page_name)} :
        Handled("view_page", page_name, user, r)

Index(user) ==
    \E r \in {index_route(PLUGIN_HOOKS, World(user))} :
        Handled("index", "home", user, r)

NextView ==
    \/ \E h \in AuthorizingHooks, f \in {"cb_deny", "cb_none"} : RegisterDeny(h, f)
    \/ \E s \in OneSlug, u \in {None, Some("reader"), Admin} : ViewPage(s, u)
    \/ \E u \in {None, Some("reader"), Admin} : Index(u)
    \/ \E s \in OneSlug, b \in ShortBodies, u \in {None, Some("reader"), Admin} : SavePage(s, b, u)
    \/ \E s \in OneSlug, u \in {None, Some("reader"), Admin} : DeletePage(s, u)

SpecView == InitIndex /\ [][NextView]_vars

(***************************************************************************)
(* Properties of trigger_hook, stated over disp, the record of the last    *)
(* dispatch: the callbacks registered at that moment (fns), the calls made *)
(* (calls: the callback, the arguments it was called with, how it ended),  *)
(* whether the dispatch raised, and what it returned.                      *)
(***************************************************************************)
(***************************************************************************)
(* Spec: the view pipeline with failing stages.  Plugins register, at the  *)
(* hook points of _process_markdown_content and of _render_page_html, a    *)
(* callback that raises PermissionError, the one exception trigger_hook    *)
(* lets through, or one that takes no part.  An administrator saves the    *)
(* page and a reader views it.                                             *)
(***************************************************************************)
StageHooks == {"process_page_macros", "process_media_links",
               "before_wikilink_conversion", "after_wikilink_conversion",
               "before_pandoc_conversion", "after_pandoc_conversion",
               "before_html_render"}

RegisterStage(h, f) ==
    /\ SumLen(PLUGIN_HOOKS, StageHooks) < SumLen(LoadedHooks(TRUE), StageHooks) + MaxCallbacks - 1
    /\ PLUGIN_HOOKS' = register_hook(PLUGIN_HOOKS, h, f)
    /\ UNCHANGED <<disp>>
    /\ UNCHANGED wikiVars
    /\ UNCHANGED slugVars
    /\ UNCHANGED clockVars
    /\ UNCHANGED raceVars

NextRender ==
    \/ \E h \in StageHooks, f \in {"cb_deny", "cb_none"} : RegisterStage(h, f)
    \/ \E s \in OneSlug : ViewPage(s, Some("reader"))
    \/ \E s \in OneSlug, b \in ShortBodies : SavePage(s, b, Admin)

SpecRender == InitIndex /\ [][NextRender]_vars


Dispatched == disp.hook # ""

\* The payload a call was made with: its first positional argument.
PayloadOf(args) == IF args = << >> THEN None ELSE args[1]

\* The payload after the first i calls, read off the calls' outcomes: the
\* last non-null value returned among them, or x when there is none.
RECURSIVE PayloadAfter(_, _, _)
PayloadAfter(calls, x, i) ==
    IF i = 0 THEN x
    ELSE IF calls[i].kind = "return" /\ calls[i].val # None THEN calls[i].val
    ELSE PayloadAfter(calls, x, i - 1)

NoneReturnedAValue(calls) ==
    \A i \in 1 .. Len(calls) : ~(calls[i].kind = "return" /\ calls[i].val # None)

\* C1: a dispatch with a payload x that does not raise calls the callbacks
\* registered for the hook in registration order, each registration once;
\* every callback gets the current payload as its first argument, a non-null
\* return value replaces the payload, and the dispatch returns the payload
\* left by the last callback.
C1_PayloadThreading ==
    (Dispatched /\ disp.args # << >> /\ ~disp.raised) =>
        /\ Len(disp.calls) = Len(disp.fns)
        /\ \A i \in 1 .. Len(disp.calls) :
              /\ disp.calls[i].fn = disp.fns[i]
              /\ disp.calls[i].args # << >>
              /\ disp.calls[i].args[1] = PayloadAfter(disp.calls, disp.args[1], i - 1)
        /\ disp.ret = PayloadAfter(disp.calls, disp.args[1], Len(disp.calls))

\* C1's case: one callback registered twice, f(0) = 1 and f(1) = 2, and the
\* dispatch of 0 returned 2.
C1_Witness ==
    /\ disp.fns = <<"cb_inc", "cb_inc">>
    /\ disp.args = <<Some(0)>>
    /\ Len(disp.calls) = 2
    /\ disp.ret = Some(2)

\* C2: a callback that raises an error other than PermissionError does not
\* end the dispatch: the error does not reach the caller, the callback
\* registered after it is called with the very arguments the failing one
\* was called with, and when the failing callback is the last one the
\* dispatch returns the payload it was called with.
C2_FaultIsolation ==
    Dispatched =>
        /\ disp.raised => disp.calls[Len(disp.calls)].kind = "PermissionError"
        /\ \A i \in 1 .. Len(disp.calls) :
              disp.calls[i].kind = "Exception" =>
                 /\ i < Len(disp.fns) =>
                       /\ Len(disp.calls) > i
                       /\ disp.calls[i + 1].fn = disp.fns[i + 1]
                       /\ disp.calls[i + 1].args = disp.calls[i].args
                 /\ i = Len(disp.fns) =>
                       /\ ~disp.raised
                       /\ disp.ret = PayloadOf(disp.calls[i].args)

\* C2's case: f1(0) = 1, f2 fails, and the dispatch of 0 returned 1.
C2_Witness ==
    /\ disp.fns = <<"cb_inc", "cb_fail">>
    /\ disp.args = <<Some(0)>>
    /\ Len(disp.calls) = 2
    /\ disp.calls[2].kind = "Exception"
    /\ ~disp.raised
    /\ disp.ret = Some(1)

\* C3: a PermissionError raised by a callback reaches the caller of
\* trigger_hook at once: the dispatch raises exactly when some callback
\* raised it, that callback is the last one called, and the callbacks
\* registered after it are not called.
C3_PermissionErrorAborts ==
    Dispatched =>
        /\ \A i \in 1 .. Len(disp.calls) :
              disp.calls[i].kind = "PermissionError" =>
                 /\ disp.raised
                 /\ i = Len(disp.calls)
        /\ Len(disp.calls) <= Len(disp.fns)
        /\ \A i \in 1 .. Len(disp.calls) : disp.calls[i].fn = disp.fns[i]
        /\ ~disp.raised => Len(disp.calls) = Len(disp.fns)

\* C3's case: the denying callback is followed by a registered callback,
\* which was not called.
C3_Witness ==
    /\ disp.raised
    /\ Len(disp.calls) < Len(disp.fns)
    /\ disp.calls[Len(disp.calls)].fn = "cb_deny"
    /\ disp.hook = "before_page_file_access"

\* C4 as amended: when no callback is registered or none returned a value, a
\* dispatch that does not raise returns the payload it was given, which is
\* null only when the payload was null or no positional argument was given;
\* a dispatch without a positional argument returns null whatever the
\* callbacks returned.
C4_ReturnsInitialPayload ==
    (Dispatched /\ ~disp.raised) =>
        /\ NoneReturnedAValue(disp.calls) => disp.ret = PayloadOf(disp.args)
        /\ disp.args = << >> => disp.ret = None

\* C4's case: a payload dispatched to a hook with no callback comes back.
C4_Witness ==
    /\ Dispatched
    /\ disp.fns = << >>
    /\ disp.args = <<Some(1)>>
    /\ ~disp.raised
    /\ disp.ret = Some(1)

\* C4 as stated: null is returned whenever no callback is registered or none
\* returned a value, with or without a positional payload.
C4_AsStated ==
    (Dispatched /\ ~disp.raised /\ NoneReturnedAValue(disp.calls)) =>
        disp.ret = None

(***************************************************************************)
(* Properties of the request handlers, stated over req, the record of the  *)
(* last request: the operation, the page, the user, the response and the   *)
(* trace of what the handler did.                                          *)
(***************************************************************************)
Did(trace, event) == \E i \in 1 .. Len(trace) : trace[i] = event

\* The responses of save_page's except PermissionError clause.
SaveDenied == {"redirect_login", "redirect_edit_denied"}

\* C5: a save_page request that a before_page_save callback denies with
\* PermissionError changes nothing: the page file and the lock file are as
\* they were, the four index files are as they were, the file was not
\* written and after_page_save was not dispatched.
C5_DeniedSaveHasNoEffect ==
    [][(req'.op = "save_page" /\ req'.resp \in SaveDenied) =>
          /\ Did(req'.trace, "before_page_save")
          /\ ~Did(req'.trace, "write_page")
          /\ ~Did(req'.trace, "after_page_save")
          /\ ~Did(req'.trace, "remove_lock")
          /\ pages' = pages
          /\ locks' = locks
          /\ page_meta' = page_meta
          /\ vocabulary' = vocabulary
          /\ inverted_index' = inverted_index
          /\ tfidf_vectors' = tfidf_vectors]_vars

\* C5's case: a user below the edit level was denied the save of a page that
\* exists, is indexed and is locked.
C5_Witness ==
    /\ req.op = "save_page"
    /\ req.resp = "redirect_edit_denied"
    /\ Did(req.trace, "_hook_before_page_save")
    /\ pages[req.page_name] # None
    /\ locks[req.page_name] # None
    /\ inverted_index # EmptyDict

(***************************************************************************)
(* Properties of the index files.                                          *)
(***************************************************************************)
\* The positions in the postings list of word_id_str that are of page_id.
PostingsOf(index, word_id_str, page_id) ==
    {i \in 1 .. Len(index[word_id_str]) : index[word_id_str][i].page_id = page_id}

Indexed(r) == Did(r.trace, "index_page_on_save_with_context")
Deindexed(r) == Did(r.trace, "deindex_page_on_delete_with_context")

\* C6: when index_page_on_save has run for a saved page whose body has the
\* word set W, every word of W is in the vocabulary and the inverted index
\* holds exactly one posting of the page's id under that word's id, with the
\* number of occurrences of the word in the body as its tf; under every
\* other word id it holds no posting of the page's id.
C6_PostingsMatchBody ==
    (req.op = "save_page" /\ Indexed(req)) =>
        LET slug == req.page_name
            tokens == tokenize_and_normalize(Unwrap(pages[slug]))
            W == {tokens[i] : i \in 1 .. Len(tokens)}
            word_to_id == vocabulary.word_to_id
        IN  /\ slug \in DOMAIN page_meta.slug_to_id
            /\ W \subseteq DOMAIN word_to_id
            /\ \A word \in W :
                  LET k == Str(word_to_id[word])
                  IN  /\ k \in DOMAIN inverted_index
                      /\ Cardinality(PostingsOf(inverted_index, k,
                                                page_meta.slug_to_id[slug])) = 1
                      /\ \A i \in PostingsOf(inverted_index, k,
                                              page_meta.slug_to_id[slug]) :
                            inverted_index[k][i].tf =
                               Cardinality({j \in 1 .. Len(tokens) : tokens[j] = word})
            /\ \A k \in DOMAIN inverted_index :
                  (\A word \in W : k # Str(word_to_id[word])) =>
                     PostingsOf(inverted_index, k, page_meta.slug_to_id[slug]) = {}

\* C6's case: the only page ever indexed was saved with the body "Dog Dog"
\* after a version that held "cat": one posting with tf 2 under "dog", and
\* "cat" is in the vocabulary with no posting left.
C6_Witness ==
    /\ req.op = "save_page"
    /\ Indexed(req)
    /\ pages[req.page_name] = Some(<<"Dog", "Dog">>)
    /\ page_meta.next_page_id = 1
    /\ "cat" \in DOMAIN vocabulary.word_to_id
    /\ "dog" \in DOMAIN vocabulary.word_to_id
    /\ Str(vocabulary.word_to_id["cat"]) \notin DOMAIN inverted_index
    /\ inverted_index[Str(vocabulary.word_to_id["dog"])] = <<[page_id |-> 0, tf |-> 2]>>

\* C7: whatever saves, deletes and recalculations have run one after
\* another, no postings list holds two postings of one page.
C7_OnePostingPerPair ==
    \A k \in DOMAIN inverted_index :
        \A i, j \in 1 .. Len(inverted_index[k]) :
            inverted_index[k][i].page_id = inverted_index[k][j].page_id => i = j

\* C7's case: after a recalculation, two pages hold one word, and one of them
\* has been saved more than once or deleted and saved again (an id was left
\* behind, or a word has lost its postings).
C7_Witness ==
    /\ req.op = "recalculate"
    /\ \E k \in DOMAIN inverted_index : Len(inverted_index[k]) = 2
    /\ \/ page_meta.next_page_id > Cardinality(DOMAIN page_meta.slug_to_id)
       \/ \E word \in DOMAIN vocabulary.word_to_id :
             Str(vocabulary.word_to_id[word]) \notin DOMAIN inverted_index

\* C8: when deindex_page_on_delete runs for a page that has an id, then
\* afterwards no posting is of that id, the vector store has no entry for the
\* id, and the page metadata has no entry for the slug nor for the id.
C8_DeindexRemovesAll ==
    [][(/\ req'.op = "delete_page"
        /\ Deindexed(req')
        /\ req'.page_name \in DOMAIN page_meta.slug_to_id) =>
          LET slug == req'.page_name
              page_id == page_meta.slug_to_id[slug]
          IN  /\ \A k \in DOMAIN inverted_index' :
                    PostingsOf(inverted_index', k, page_id) = {}
              /\ Str(page_id) \notin DOMAIN tfidf_vectors'
              /\ slug \notin DOMAIN page_meta'.slug_to_id
              /\ Str(page_id) \notin DOMAIN page_meta'.id_to_slug
              /\ \A k \in DOMAIN page_meta'.id_to_slug :
                    page_meta'.id_to_slug[k] # slug]_vars

\* C8's case: a page was deleted and de-indexed while another page stays
\* indexed.
C8_Witness ==
    /\ req.op = "delete_page"
    /\ req.resp = "redirect_index"
    /\ Deindexed(req)
    /\ req.page_name \notin DOMAIN page_meta.slug_to_id
    /\ page_meta.next_page_id = 2
    /\ Cardinality(DOMAIN page_meta.slug_to_id) = 1
    /\ inverted_index # EmptyDict
    /\ tfidf_vectors # EmptyDict

\* The values of N in ~~SIMILAR(N)~~ that are looked at; 5 is the default.
SimilarCounts == {1, 5}

SearchSlugs(query_string) ==
    LET results == perform_search(World(Admin), query_string)
    IN  {results[i].slug : i \in 1 .. Len(results)}

SimilarSlugs(current_page_slug, num_similar) ==
    LET html == generate_similar_pages_html(World(Admin), current_page_slug, num_similar)
    IN  {html.slugs[i] : i \in 1 .. Len(html.slugs)}

\* C9: as long as a page has no file (it was deleted and not saved again, or
\* never saved), no search returns its slug and the list of similar pages
\* of no other page holds it.
C9_DeletedPageNotFound ==
    \A slug \in Slugs :
        pages[slug] = None =>
            /\ \A q \in Queries : slug \notin SearchSlugs(q)
            /\ \A other \in Slugs \ {slug}, n \in SimilarCounts :
                  slug \notin SimilarSlugs(other, n)

\* C9's case: a page that held a word of its own was deleted, and two other
\* pages are listed as similar to each other.
C9_Witness ==
    /\ req.op = "delete_page"
    /\ req.resp = "redirect_index"
    /\ Deindexed(req)
    /\ pages[req.page_name] = None
    /\ \E word \in DOMAIN vocabulary.word_to_id :
          Str(vocabulary.word_to_id[word]) \notin DOMAIN inverted_index
    /\ \E other \in Slugs \ {req.page_name} : SimilarSlugs(other, 5) # {}

(***************************************************************************)
(* SpecSlug: the normalisation of a requested page name (app.py:159-164    *)
(* and 243-246).  A string is the sequence of its characters.              *)
(***************************************************************************)
MaxNameLen == 3       \* characters in a requested page name

\* One character of each kind the two regular expressions of slugify tell
\* apart: a lower-case and an upper-case letter, white space, a character
\* that is neither a word character nor "-", the hyphen, and the separator.
Chars == {"a", "B", " ", "!", "-", "/"}
PageNames == SeqsUpTo(Chars, MaxNameLen)

\* str.lower() on one character.
LowerChar(c) == IF c = "B" THEN "b" ELSE c

IsSpace(c) == c = " "
IsWordChar(c) == c \in {"a", "b", "B"}

\* re.sub(r'\s+', '-', text): every run of white space becomes one "-".
RECURSIVE SpaceRunsToHyphen(_)
SpaceRunsToHyphen(text) ==
    IF text = << >> THEN << >>
    ELSE IF IsSpace(Head(text))
    THEN (IF Len(text) > 1 /\ IsSpace(text[2])
          THEN SpaceRunsToHyphen(Tail(text))
          ELSE <<"-">> \o SpaceRunsToHyphen(Tail(text)))
    ELSE <<Head(text)>> \o SpaceRunsToHyphen(Tail(text))

\* re.sub(r'[^\w\-]', '', text)
StripNonWord(text) ==
    LET Keep(c) == IsWordChar(c) \/ c = "-"
    IN  SelectSeq(text, Keep)

\* app.py:159-164
slugify(text) ==
    StripNonWord(SpaceRunsToHyphen([i \in 1 .. Len(text) |-> LowerChar(text[i])]))

\* str.split('/'): the segments between the separators, empty ones too.
RECURSIVE Split(_)
Split(text) ==
    IF \A i \in 1 .. Len(text) : text[i] # "/" THEN <<text>>
    ELSE LET k == CHOOSE i \in 1 .. Len(text) :
                     /\ text[i] = "/"
                     /\ \A j \in 1 .. (i - 1) : text[j] # "/"
         IN  <<SubSeq(text, 1, k - 1)>> \o Split(SubSeq(text, k + 1, Len(text)))

\* '/'.join(parts)
RECURSIVE Join(_)
Join(parts) ==
    IF parts = << >> THEN << >>
    ELSE IF Len(parts) = 1 THEN parts[1]
    ELSE parts[1] \o <<"/">> \o Join(Tail(parts))

\* app.py:243: '/'.join(slugify(part) for part in filter(None, page_name.split('/')))
normalize(page_name) ==
    LET NonEmpty(part) == part # << >>
        parts == SelectSeq(Split(page_name), NonEmpty)
    IN  Join([i \in 1 .. Len(parts) |-> slugify(parts[i])])

\* app.py:243: the requested name is normalised.
Resolve ==
    /\ slug_out = None
    /\ slug_out' = Some(normalize(slug_in))
    /\ UNCHANGED <<slug_in>>
    /\ UNCHANGED hookVars
    /\ UNCHANGED wikiVars
    /\ UNCHANGED clockVars
    /\ UNCHANGED raceVars

\* app.py:244-246: a name that normalisation changes is answered with a
\* redirect to the normalised name, which the client requests next.
FollowRedirect ==
    /\ slug_out # None
    /\ Unwrap(slug_out) # slug_in
    /\ slug_in' = Unwrap(slug_out)
    /\ slug_out' = None
    /\ UNCHANGED hookVars
    /\ UNCHANGED wikiVars
    /\ UNCHANGED clockVars
    /\ UNCHANGED raceVars

NextSlug ==
    \/ Resolve
    \/ FollowRedirect

InitSlugs ==
    /\ PLUGIN_HOOKS = [h \in HookNames |-> << >>]
    /\ disp = NoDispatch
    /\ InitWiki
    /\ slug_in \in PageNames
    /\ slug_out = None

SpecSlug == InitSlugs /\ [][NextSlug]_vars

\* C10: normalising a normalised name gives the same name back.
C10_NormalizeIdempotent ==
    slug_out # None => normalize(Unwrap(slug_out)) = Unwrap(slug_out)

(***************************************************************************)
(* Properties of the edit lock.  The lock file holds who entered the edit  *)
(* view and when; no setting of src/config.py gives a timeout, so the      *)
(* properties that speak of one are stated for every timeout up to         *)
(* MaxTime ticks of the clock.                                             *)
(***************************************************************************)
Timeouts == 1 .. MaxTime

\* The step is an edit_page request for slug s by a user who holds the
\* permission that edit_page asks for.
EditRequest(s) ==
    /\ now' = now
    /\ req'.op = "edit_page"
    /\ req'.page_name = s
    /\ check_permission(req'.user, IF pages[s] # None
                                   THEN "edit_page" ELSE "create_page")

\* C11: while the lock that editor A created on a page is younger than the
\* timeout, an edit request for the page by a different editor B is denied:
\* B is redirected to the page view, no lock is written for B and the lock
\* is the one A created.
C11_OtherEditorDenied ==
    [][\A s \in Slugs, timeout \in Timeouts :
          (/\ EditRequest(s)
           /\ locks[s] # None
           /\ Unwrap(locks[s]).holder # req'.user
           /\ now - Unwrap(locks[s]).at < timeout)
          => /\ req'.resp = "redirect_view"
             /\ ~Did(req'.trace, "create_lock")
             /\ locks' = locks]_vars

\* C11's case: an editor was sent to the page view while the lock that
\* another editor created one tick earlier was in place.
C11_Witness ==
    /\ req.op = "edit_page"
    /\ req.resp = "redirect_view"
    /\ req.user \in Editors
    /\ locks[req.page_name] # None
    /\ Unwrap(locks[req.page_name]).holder \in Editors \ {req.user}
    /\ now - Unwrap(locks[req.page_name]).at = 1

\* C12: a lock does not block editing forever: when editor A created the lock
\* at time T and did not save, an edit request by editor B after T + timeout
\* removes the expired lock, writes a lock for B and shows B the edit view.
C12_ExpiredLockTakenOver ==
    [][\A s \in Slugs, timeout \in Timeouts :
          (/\ EditRequest(s)
           /\ locks[s] # None
           /\ Unwrap(locks[s]).holder # req'.user
           /\ now > Unwrap(locks[s]).at + timeout)
          => /\ req'.resp = "render_edit"
             /\ locks'[s] = Some([holder |-> req'.user, at |-> now])]_vars

\* C13: an editor who holds the lock of a page and asks for its edit view
\* again is shown it, and the lock is replaced by a new lock of the same
\* holder.
C13_HolderReenters ==
    [][\A s \in Slugs :
          (/\ EditRequest(s)
           /\ locks[s] # None
           /\ Unwrap(locks[s]).holder = req'.user)
          => /\ req'.resp = "render_edit"
             /\ locks'[s] = Some([holder |-> req'.user, at |-> now])]_vars

\* C16: after delete_page removed the page file no lock is left for the slug,
\* so an edit request that creates the slug anew is not refused for a lock
\* that is older than the delete.  (The source writes no HTML cache file, so
\* none can be left.)
C16_DeleteRemovesLock ==
    (req.op = "delete_page" /\ Did(req.trace, "remove_page"))
        => locks[req.page_name] = None

(***************************************************************************)
(* Properties of save_page and delete_page.                                *)
(***************************************************************************)
\* Where event stands first in the trace, 0 when it does not.
Pos(trace, event) ==
    IF Did(trace, event)
    THEN CHOOSE i \in 1 .. Len(trace) :
             trace[i] = event /\ \A j \in 1 .. i - 1 : trace[j] # event
    ELSE 0

Once(trace, event) == Cardinality({i \in 1 .. Len(trace) : trace[i] = event}) = 1

VetoCalls(s, user) ==
    trigger_hook(PLUGIN_HOOKS, "before_page_delete", <<Some(FALSE)>>,
                 [page_name |-> s], World(user)).calls

\* C15: when any callback registered for before_page_delete returns true to
\* a delete_page request for a page that exists, whatever the callbacks
\* before and after it return, delete_page does not remove the page file,
\* does not dispatch after_page_delete and redirects to the edit view.
C15_AnyVetoAborts ==
    [][(/\ now' = now /\ PLUGIN_HOOKS' = PLUGIN_HOOKS
        /\ req'.op = "delete_page"
        /\ pages[req'.page_name] # None
        /\ \E i \in DOMAIN VetoCalls(req'.page_name, req'.user) :
               VetoCalls(req'.page_name, req'.user)[i].val = Some(TRUE))
       => /\ pages' = pages
          /\ ~Did(req'.trace, "remove_page")
          /\ ~Did(req'.trace, "after_page_delete")
          /\ req'.resp = "redirect_edit"]_vars

(***************************************************************************)
(* Properties of the entry points that dispatch an authorizing hook.       *)
(***************************************************************************)
\* A callback of hook point h raises PermissionError to a request of the
\* user for slug s, as the registry and the files stand.
HookDenies(h, s, user) ==
    trigger_hook(PLUGIN_HOOKS, h, <<Some(s)>>, [page_name |-> s],
                 World(user)).raised

\* The request (op, s, user) dispatches an authorizing hook that denies it.
\* The home route dispatches before_index_load and then views "home".
Denied(op, s, user) ==
    CASE op = "index" -> \/ HookDenies("before_index_load", "home", user)
                         \/ HookDenies("before_page_file_access", "home", user)
      [] op = "view_page" -> HookDenies("before_page_file_access", s, user)
      [] op = "save_page" -> HookDenies("before_page_save", s, user)
      [] op = "delete_page" -> HookDenies("before_page_delete", s, user)
      [] OTHER -> FALSE

\* C17: in the home route, view_page, save_page and delete_page, when a
\* callback of the authorizing hook raises the permission-denied error, the
\* response is the redirect to login for an anonymous requester and the
\* forbidden response for an authenticated one, never a successful one.
C17_DenialReachesCaller ==
    [][(/\ now' = now /\ PLUGIN_HOOKS' = PLUGIN_HOOKS
        /\ Denied(req'.op, req'.page_name, req'.user))
       => req'.resp = IF req'.user = None THEN "redirect_login"
                      ELSE "forbidden_403"]_vars

\* C20: the view pipeline never shows HTML that is not newer than the page
\* file: every view answered with the page, in particular every view that
\* follows a save, runs the converter in that request and shows the
\* fragment of the page file as it is then.  (The source has no fast path
\* that skips the conversion.)
C20_ViewReconverts ==
    (req.op \in {"view_page", "index"} /\ req.resp = "render_page") =>
        /\ pages[req.page_name] # None
        /\ Once(req.trace, "convert_text")
        /\ Pos(req.trace, "load_page") < Pos(req.trace, "convert_text")
        /\ req.html = Some([fragment_of |-> Unwrap(pages[req.page_name])])

\* C20's case: the page was saved, deleted and saved again with words in
\* its body (its page id is the second one handed out), and the view that
\* followed shows the fragment of that body.
C20_Witness ==
    /\ req.op = "view_page"
    /\ req.resp = "render_page"
    /\ req.page_name \in DOMAIN page_meta.slug_to_id
    /\ page_meta.slug_to_id[req.page_name] = 1
    /\ req.html \notin {None, Some([fragment_of |-> << >>])}

(***************************************************************************)
(* Properties of the vocabulary and of the page metadata.                  *)
(***************************************************************************)
\* forward and backward are inverse of each other: backward is keyed by the
\* str() of forward's values.
Inverse(forward, backward) ==
    /\ \A k \in DOMAIN forward :
           Str(forward[k]) \in DOMAIN backward /\ backward[Str(forward[k])] = k
    /\ \A i \in DOMAIN backward :
           backward[i] \in DOMAIN forward /\ Str(forward[backward[i]]) = i

C19_PageMetaBijective ==
    /\ [](/\ Inverse(page_meta.slug_to_id, page_meta.id_to_slug)
          /\ DOMAIN page_meta.slug_to_id = {s \in Slugs : pages[s] # None}
          /\ \A s \in DOMAIN page_meta.slug_to_id :
                 page_meta.slug_to_id[s] < page_meta.next_page_id)
    /\ [][/\ (req'.op = "save_page" /\ Indexed(req')) =>
                 /\ req'.page_name \in DOMAIN page_meta'.slug_to_id
                 /\ req'.page_name \in DOMAIN page_meta.slug_to_id =>
                        page_meta' = page_meta
          /\ (req'.op = "delete_page" /\ Deindexed(req')) =>
                 req'.page_name \notin DOMAIN page_meta'.slug_to_id]_vars

\* C19's case: two slugs are indexed, with the second and third page id
\* handed out, the first having gone with a page that was deleted.
C19_Witness ==
    /\ Cardinality(DOMAIN page_meta.slug_to_id) = 2
    /\ page_meta.next_page_id = 3
    /\ "0" \notin DOMAIN page_meta.id_to_slug

(***************************************************************************)
(* Properties of perform_search and generate_similar_pages_html, stated    *)
(* over the index files of the state.                                      *)
(***************************************************************************)
\* The terms of the query that are in the vocabulary, in the query's order.
KnownTerms(q) ==
    LET InVocabulary(term) == term \in DOMAIN vocabulary.word_to_id
    IN  SelectSeq(tokenize_and_normalize(q), InVocabulary)

\* The postings list of a term of the vocabulary.
TermPostings(term) ==
    LET word_id_str == Str(vocabulary.word_to_id[term])
    IN  IF word_id_str \in DOMAIN inverted_index
        THEN inverted_index[word_id_str] ELSE << >>

\* The places <<i, j>> where the j-th posting of the i-th known term of the
\* query is a posting of the page of the slug.
Hits(slug, q) ==
    {<<i, j>> \in (1 .. Len(KnownTerms(q))) \X (1 .. MaxPageIds + 1) :
        /\ j <= Len(TermPostings(KnownTerms(q)[i]))
        /\ TermPostings(KnownTerms(q)[i])[j].page_id = page_meta.slug_to_id[slug]}

\* Place a comes before place b as the terms and their postings are read.
Earlier(a, b) == a[1] < b[1] \/ (a[1] = b[1] /\ a[2] < b[2])

FirstHit(slug, q) ==
    CHOOSE a \in Hits(slug, q) : \A b \in Hits(slug, q) : a = b \/ Earlier(a, b)

\* C21: perform_search drops the query terms that are not in the vocabulary;
\* it returns, once each, exactly the indexed pages with a posting under one
\* of the remaining terms; the score of a page is the sum of the tf of its
\* postings over those terms, as often as the query names them; the results
\* are in descending order of score, pages of the same score in the order
\* in which the scoring first met them; a query without a known term gives
\* the empty list.
C21_SearchResults ==
    \A q \in Queries :
        LET results == perform_search(World(Admin), q)
            matching == {slug \in DOMAIN page_meta.slug_to_id : Hits(slug, q) # {}}
        IN  /\ Len(results) = Cardinality(matching)
            /\ {results[i].slug : i \in 1 .. Len(results)} = matching
            /\ \A i \in 1 .. Len(results) :
                   results[i].score =
                       SumOver([a \in Hits(results[i].slug, q) |->
                                   TermPostings(KnownTerms(q)[a[1]])[a[2]].tf],
                               Hits(results[i].slug, q))
            /\ \A i, j \in 1 .. Len(results) :
                   i < j => \/ results[i].score > results[j].score
                            \/ /\ results[i].score = results[j].score
                               /\ Earlier(FirstHit(results[i].slug, q),
                                          FirstHit(results[j].slug, q))
            /\ KnownTerms(q) = << >> => results = << >>

\* C21's case: a query of a known and an unknown term finds two pages with
\* the same score, the page with the higher id first, and another query
\* finds the same two pages with different scores.
C21_Witness ==
    /\ \E q \in Queries :
          LET results == perform_search(World(Admin), q)
          IN  /\ Len(q) = 2 /\ Len(KnownTerms(q)) = 1
              /\ Len(results) = 2
              /\ results[1].score = results[2].score
              /\ page_meta.slug_to_id[results[1].slug] >
                     page_meta.slug_to_id[results[2].slug]
    /\ \E q \in Queries :
          LET results == perform_search(World(Admin), q)
          IN  /\ Len(results) = 2
              /\ results[1].score > results[2].score

\* The TF-IDF vector stored for the slug, the empty one when none is.
VectorOf(slug) ==
    IF slug \in DOMAIN page_meta.slug_to_id
       /\ Str(page_meta.slug_to_id[slug]) \in DOMAIN tfidf_vectors
    THEN tfidf_vectors[Str(page_meta.slug_to_id[slug])]
    ELSE EmptyDict

\* The cosine of the two vectors is above zero: no weight being negative,
\* that is when a word has a weight above zero in both.
Similar(vec1, vec2) ==
    \E k \in (DOMAIN vec1) \cap (DOMAIN vec2) : vec1[k] * vec2[k] > 0

\* The slugs other than the current one whose page is similar to it.
SimilarTo(current) ==
    {slug \in DOMAIN page_meta.slug_to_id \ {current} :
        Similar(VectorOf(current), VectorOf(slug))}

\* cos(current, a) >= cos(current, b), the square roots multiplied out.
AtLeastAsSimilar(current, a, b) ==
    LET sa == cosine_similarity(VectorOf(current), VectorOf(a))
        sb == cosine_similarity(VectorOf(current), VectorOf(b))
    IN  sa.dot * sa.dot * sb.sq2 >= sb.dot * sb.dot * sa.sq2

\* C22: generate_similar_pages_html(slug, n) lists at most n pages, never
\* the page itself, never a page with an empty vector; every page listed has
\* a cosine similarity to the current page above zero; the list is in
\* descending order of similarity and holds the n most similar pages, or all
\* similar pages when they are fewer; and when the current page has a
\* vector and no other page is similar to it, the answer is the comment
\* that none was found.
C22_SimilarPagesList ==
    \A current \in Slugs, n \in SimilarCounts :
        LET html == generate_similar_pages_html(World(Admin), current, n)
            listed == {html.slugs[i] : i \in 1 .. Len(html.slugs)}
        IN  /\ Len(html.slugs) <= n
            /\ Cardinality(listed) = Len(html.slugs)
            /\ current \notin listed
            /\ \A slug \in listed : VectorOf(slug) # EmptyDict
            /\ listed \subseteq SimilarTo(current)
            /\ \A i, j \in 1 .. Len(html.slugs) :
                   i < j => AtLeastAsSimilar(current, html.slugs[i], html.slugs[j])
            /\ \A slug \in listed, other \in SimilarTo(current) \ listed :
                   AtLeastAsSimilar(current, slug, other)
            /\ Len(html.slugs) < n => listed = SimilarTo(current)
            /\ (VectorOf(current) # EmptyDict /\ SimilarTo(current) = {}) =>
                   html = [status |-> "none_found", slugs |-> << >>]
            /\ html.status \in {"not_available", "no_content", "none_found", "list"}
            /\ html.status # "list" => html.slugs = << >>

\* C22's case: two pages are similar to a third, the one with the higher
\* page id more than the other, so that the list of five puts it first and
\* the list of one holds it alone.
C22_Witness ==
    \E current \in Slugs :
        LET five == generate_similar_pages_html(World(Admin), current, 5).slugs
            one == generate_similar_pages_html(World(Admin), current, 1).slugs
        IN  /\ Len(five) = 2
            /\ ~AtLeastAsSimilar(current, five[2], five[1])
            /\ page_meta.slug_to_id[five[1]] > page_meta.slug_to_id[five[2]]
            /\ one = <<five[1]>>

(***************************************************************************)
(* Properties of the view pipeline, stated over the trace of the request.  *)
(***************************************************************************)
\* The hooks of a view, in the order of app.py:249-357.
ViewOrder == <<"before_page_file_access", "after_page_load",
               "process_page_macros", "process_media_links",
               "convert_wikilinks", "before_pandoc_conversion",
               "after_pandoc_conversion", "before_html_render">>

\* C23: a view that ends in an HTML response has dispatched each of
\* before_page_file_access, after_page_load, process_page_macros,
\* process_media_links, before_pandoc_conversion, after_pandoc_conversion
\* and before_html_render exactly once and in this order, and has resolved
\* the bracket links once, after process_media_links and before
\* before_pandoc_conversion.
C23_ViewHookOrder ==
    (req.op \in {"view_page", "index"} /\ req.resp = "render_page") =>
        /\ \A i \in 1 .. Len(ViewOrder) : Once(req.trace, ViewOrder[i])
        /\ \A i \in 1 .. Len(ViewOrder) - 1 :
               Pos(req.trace, ViewOrder[i]) < Pos(req.trace, ViewOrder[i + 1])

\* C23's case: a page with words in its body was shown to a reader while a
\* callback was registered at before_page_file_access.
C23_Witness ==
    /\ req.op = "view_page"
    /\ req.resp = "render_page"
    /\ req.user = Some("reader")
    /\ PLUGIN_HOOKS["before_page_file_access"] # LoadedHooks(TRUE)["before_page_file_access"]
    /\ req.html \notin {None, Some([fragment_of |-> << >>])}

\* The stages of a view after the page is loaded, in the order of
\* app.py:309-357: hook points and the two conversions.
Pipeline == <<"process_page_macros", "process_media_links",
              "before_wikilink_conversion", "convert_wikilinks",
              "after_wikilink_conversion", "before_pandoc_conversion",
              "convert_text", "after_pandoc_conversion", "before_html_render">>

\* Stage i fails: a callback registered at its hook point raises an error
\* that trigger_hook lets through.
StageFails(i) ==
    /\ Pipeline[i] \in HookNames
    /\ \E k \in 1 .. Len(PLUGIN_HOOKS[Pipeline[i]]) :
           PLUGIN_HOOKS[Pipeline[i]][k] = "cb_deny"

\* C24: when a stage of a view fails after the page was loaded, the request
\* ends in the redirect to the edit view and no later stage of the pipeline
\* is run; after a failure in macro expansion neither before_pandoc_conversion
\* is dispatched nor the converter called.
C24_FailureEndsPipeline ==
    [][(PLUGIN_HOOKS' = PLUGIN_HOOKS /\ now' = now /\ req'.op = "view_page"
        /\ Did(req'.trace, "load_page")) =>
          \A i \in 1 .. Len(Pipeline) :
              (StageFails(i) /\ \A j \in 1 .. i - 1 : ~StageFails(j)) =>
                  /\ req'.resp = "redirect_edit_error"
                  /\ Did(req'.trace, Pipeline[i])
                  /\ \A j \in i + 1 .. Len(Pipeline) : ~Did(req'.trace, Pipeline[j])]_vars

(***************************************************************************)
(* Properties of save_page when the slug has no lock.                      *)
(***************************************************************************)
\* C30: a save_page request for a slug that has no lock, when no
\* before_page_save callback denies it, writes the page file, dispatches
\* after_page_save and answers the redirect to the page view.
C30_SaveWithoutLock ==
    [][(req'.op = "save_page" /\ locks[req'.page_name] = None
        /\ req'.resp \notin SaveDenied) =>
          /\ Did(req'.trace, "write_page")
          /\ pages'[req'.page_name] # None
          /\ Did(req'.trace, "after_page_save")
          /\ req'.resp = "redirect_view"]_vars

(***************************************************************************)
(* Properties of the TF-IDF vector store and of the index as a whole.      *)
(***************************************************************************)
\* The ids, as the keys of a vector, of the words in the current body of the
\* page with the id of key k; no word when the id or the file is not there.
BodyWordIds(k) ==
    IF k \in DOMAIN page_meta.id_to_slug /\ pages[page_meta.id_to_slug[k]] # None
    THEN LET tokens == tokenize_and_normalize(Unwrap(pages[page_meta.id_to_slug[k]]))
         IN  {Str(vocabulary.word_to_id[tokens[i]]) :
                 i \in {j \in 1 .. Len(tokens) : tokens[j] \in DOMAIN vocabulary.word_to_id}}
    ELSE {}

\* C25: whatever saves, deletes and recalculations have run one after
\* another, the keys of every stored vector are ids of words in the current
\* body of its page; right after index_page_on_save has run for a page, the
\* keys of its vector are exactly the ids of the words in its body.
C25_VectorKeysInBody ==
    /\ \A k \in DOMAIN tfidf_vectors : DOMAIN tfidf_vectors[k] \subseteq BodyWordIds(k)
    /\ (req.op = "save_page" /\ Indexed(req)) =>
          /\ req.page_name \in DOMAIN page_meta.slug_to_id
          /\ Str(page_meta.slug_to_id[req.page_name]) \in DOMAIN tfidf_vectors
          /\ DOMAIN tfidf_vectors[Str(page_meta.slug_to_id[req.page_name])]
                = BodyWordIds(Str(page_meta.slug_to_id[req.page_name]))
          /\ \A i \in 1 .. Len(Unwrap(pages[req.page_name])) :
                Lower(Unwrap(pages[req.page_name])[i]) \in DOMAIN vocabulary.word_to_id

\* C25's case: a page was saved with two words while another page is
\* indexed: its vector has both words as keys, one of them with weight zero
\* (every page holds the word) and one with a weight above zero.
C25_Witness ==
    /\ req.op = "save_page"
    /\ Indexed(req)
    /\ Cardinality(DOMAIN page_meta.slug_to_id) = 2
    /\ Cardinality(DOMAIN VectorOf(req.page_name)) = 2
    /\ \E k \in DOMAIN VectorOf(req.page_name) : VectorOf(req.page_name)[k] = 0
    /\ \E k \in DOMAIN VectorOf(req.page_name) : VectorOf(req.page_name)[k] > 0

\* C26: a recalculation leaves the vocabulary with its next_word_id, the
\* inverted index, the page metadata and the page files as they were, also
\* when a body holds words the vocabulary does not know: these words are
\* skipped, the keys of the new vector of a page being the ids of the words
\* of its body that the vocabulary knows.
C26_RecalculateFrame ==
    [][(req'.op = "recalculate" /\ req'.resp = "redirect_dashboard") =>
          /\ vocabulary' = vocabulary
          /\ inverted_index' = inverted_index
          /\ page_meta' = page_meta
          /\ pages' = pages
          /\ locks' = locks
          /\ \A k \in DOMAIN tfidf_vectors' :
                DOMAIN tfidf_vectors'[k] = BodyWordIds(k)]_vars

\* C26's case: the recalculation ran while the body of an indexed page held
\* a word the vocabulary does not know, and gave the page a vector with a
\* weight above zero.
C26_Witness ==
    /\ req.op = "recalculate"
    /\ req.resp = "redirect_dashboard"
    /\ \E slug \in DOMAIN page_meta.slug_to_id :
          /\ pages[slug] # None
          /\ \E i \in 1 .. Len(Unwrap(pages[slug])) :
                Lower(Unwrap(pages[slug])[i]) \notin DOMAIN vocabulary.word_to_id
          /\ \E k \in DOMAIN VectorOf(slug) : VectorOf(slug)[k] > 0

\* The postings of the page id under the word id of key k, as a set.
PagePostings(index, k, page_id) ==
    IF k \in DOMAIN index
    THEN {index[k][i] : i \in PostingsOf(index, k, page_id)}
    ELSE {}

\* C27: when index_page_on_save or deindex_page_on_delete runs for a page,
\* every other page keeps its metadata entry, its postings and its stored
\* vector as they were: the vectors of the other pages are not computed
\* anew, although the number of pages and the document frequencies changed.
C27_OtherPagesUntouched ==
    [][((req'.op = "save_page" /\ Indexed(req'))
        \/ (req'.op = "delete_page" /\ Deindexed(req'))) =>
          \A other \in DOMAIN page_meta.slug_to_id \ {req'.page_name} :
              LET page_id == page_meta.slug_to_id[other]
              IN  /\ other \in DOMAIN page_meta'.slug_to_id
                  /\ page_meta'.slug_to_id[other] = page_id
                  /\ Get(page_meta'.id_to_slug, Str(page_id))
                        = Get(page_meta.id_to_slug, Str(page_id))
                  /\ Get(tfidf_vectors', Str(page_id)) = Get(tfidf_vectors, Str(page_id))
                  /\ \A k \in DOMAIN inverted_index \cup DOMAIN inverted_index' :
                        PagePostings(inverted_index', k, page_id)
                           = PagePostings(inverted_index, k, page_id)
                  /\ pages'[other] = pages[other]]_vars

\* C27's case: after a page was indexed or de-indexed, the stored vector of
\* another page is not the one a recalculation would give it.
C27_Witness ==
    /\ \/ req.op = "save_page" /\ Indexed(req)
       \/ req.op = "delete_page" /\ Deindexed(req)
    /\ \E other \in DOMAIN page_meta.slug_to_id \ {req.page_name} :
          /\ Str(page_meta.slug_to_id[other]) \in DOMAIN tfidf_vectors
          /\ VectorOf(other) #
                recalculate_all_tfidf_vectors(PLUGIN_HOOKS, World(Admin))
                    .tfidf_vectors[Str(page_meta.slug_to_id[other])]

\* C29: whatever saves, deletes and recalculations have run one after
\* another, every posting and every vector is of a page id that the page
\* metadata holds, every word id of the inverted index and of a vector is in
\* the vocabulary, and no word id has an empty list of postings.
C29_IndexRefersToKnownIds ==
    /\ \A k \in DOMAIN inverted_index :
          /\ inverted_index[k] # << >>
          /\ k \in DOMAIN vocabulary.id_to_word
          /\ \A i \in 1 .. Len(inverted_index[k]) :
                Str(inverted_index[k][i].page_id) \in DOMAIN page_meta.id_to_slug
    /\ \A p \in DOMAIN tfidf_vectors :
          /\ p \in DOMAIN page_meta.id_to_slug
          /\ DOMAIN tfidf_vectors[p] \subseteq DOMAIN vocabulary.id_to_word

\* C29's case: a page was deleted while another page stays indexed: a word
\* of the vocabulary has no postings, an id was left behind, and postings
\* and a vector remain.
C29_Witness ==
    /\ req.op = "delete_page"
    /\ Deindexed(req)
    /\ page_meta.next_page_id > Cardinality(DOMAIN page_meta.slug_to_id)
    /\ Cardinality(DOMAIN vocabulary.id_to_word) > Cardinality(DOMAIN inverted_index)
    /\ inverted_index # EmptyDict
    /\ \E p \in DOMAIN tfidf_vectors : tfidf_vectors[p] # EmptyDict

(***************************************************************************)
(* Properties of index updates that run at the same time.                  *)
(***************************************************************************)
\* The index holds the update of the page: the page has an id, its words
\* are in the vocabulary, each with one posting of the page's id and the
\* right tf, no other word has a posting of that id, and the vector store
\* has the page's vector, with the ids of its words as keys.
Recorded(slug) ==
    LET tokens == tokenize_and_normalize(Unwrap(pages[slug]))
        W == {tokens[i] : i \in 1 .. Len(tokens)}
    IN  /\ slug \in DOMAIN page_meta.slug_to_id
        /\ Get(page_meta.id_to_slug, Str(page_meta.slug_to_id[slug])) = Some(slug)
        /\ W \subseteq DOMAIN vocabulary.word_to_id
        /\ \A word \in W :
              /\ Get(vocabulary.id_to_word, Str(vocabulary.word_to_id[word])) = Some(word)
              /\ PagePostings(inverted_index, Str(vocabulary.word_to_id[word]),
                              page_meta.slug_to_id[slug])
                    = {[page_id |-> page_meta.slug_to_id[slug],
                        tf |-> Cardinality({j \in 1 .. Len(tokens) : tokens[j] = word})]}
        /\ \A k \in DOMAIN inverted_index :
              (\A word \in W : k # Str(vocabulary.word_to_id[word])) =>
                  PagePostings(inverted_index, k, page_meta.slug_to_id[slug]) = {}
        /\ Str(page_meta.slug_to_id[slug]) \in DOMAIN tfidf_vectors
        /\ DOMAIN VectorOf(slug) = {Str(vocabulary.word_to_id[word]) : word \in W}

BothDone == \A p \in PairSlugs : job[p].pc = "done"

\* The update of a page is missing, or the two pages were given one id.
UpdateLost ==
    \/ \E p \in PairSlugs : ~Recorded(p)
    \/ job["home"].page_id = job["alpha/beta"].page_id

\* C28: when the index updates of two saves of different pages have both
\* finished and no file was written between the load and the write of it by
\* the other update, as when one save runs after the other, then the index
\* holds the update of either page and the pages have different ids; when
\* the updates interleave between a load and a write of one file, a state
\* with an update missing or with one id for both pages is reached.
C28_LastWriterWins ==
    (BothDone /\ ~torn) => ~UpdateLost

\* C28's case: both updates have finished, a file was written between the
\* load and the write of it by the other update, and an update is missing
\* or the two pages have one id.
C28_Witness ==
    /\ BothDone
    /\ torn
    /\ UpdateLost

=============================================================================
